---- MODULE Spec2Model ----
(***************************************************************************)
(* Streaming per-game metadata extraction of tlol-agent:                   *)
(*   src/metadata/optim_isal.py  (the optimised scanner)                   *)
(*   src/new_isal.py             (the regex based scanner)                 *)
(*   src/isal.py                 (the first scanner; its segmentation loop *)
(*                                is the same code as optim_isal's)        *)
(* Bytes are numbers 0..255, a bytes object is a sequence of them, and a   *)
(* decoded str is represented by its UTF-8 bytes (decoding is injective    *)
(* and code point order is UTF-8 byte order).                              *)
(***************************************************************************)
EXTENDS Integers, Sequences, FiniteSets, TLC

(* ------------------------------ bounds -------------------------------- *)
\* most newlines in the byte stream of the single file of Spec
MaxNewlines == 2
\* largest chunk one f.read returns in the model (CHUNK_SIZE is 8 MiB)
MaxChunk == 3
\* most files the glob of SpecMain finds
MaxFiles == 2
\* longest window over {a, b} that bytes.count is called on in SpecCount
MaxWindow == 3
\* longest data extract_float_after is called on in SpecBound
MaxData == 4
\* most fragments a record of SpecRow or SpecTime is made of
MaxFragments == 2
\* most segments of a path of SpecPatch
MaxSegments == 3

(* --------------------------- byte patterns ---------------------------- *)
NL == 10
QUOTE == 34
COLON == 58
DOT == 46
SPACE == 32
PIPE == 124
P_DEATH == <<34,72,101,114,111,68,105,101,34>>  \* "HeroDie"
P_SPELL == <<34,67,97,115,116,83,112,101,108,108,65,110,115,34>>  \* "CastSpellAns"
P_ATTACK == <<34,66,97,115,105,99,65,116,116,97,99,107,80,111,115,34>>  \* "BasicAttackPos"
P_DAMAGE == <<34,85,110,105,116,65,112,112,108,121,68,97,109,97,103,101,34>>  \* "UnitApplyDamage"
P_ITEM == <<34,66,117,121,73,116,101,109,34>>  \* "BuyItem"
P_CHAMP_PRE == <<34,99,104,97,109,112,105,111,110,34,58,34>>  \* "champion":"
P_TIME == <<34,116,105,109,101,34,58>>  \* "time":
P_CREATE_HERO == <<34,67,114,101,97,116,101,72,101,114,111,34>>  \* "CreateHero"
P_NET_ID == <<34,110,101,116,95,105,100,34,58>>  \* "net_id":
K_NET_ID == <<34,110,101,116,95,105,100,34>>  \* "net_id"
K_CHAMPION == <<34,99,104,97,109,112,105,111,110,34>>  \* "champion"
K_SKIN_NAME == <<34,115,107,105,110,95,110,97,109,101,34>>  \* "skin_name"
K_TIME == <<34,116,105,109,101,34>>  \* "time"
\* b'0123456789'
DIGITS == 48..57
\* what bytes.strip() removes and what \s matches in a bytes pattern
WHITESPACE == {9, 10, 11, 12, 13, 32}
\* the cap on a champion name: 0 < end < 30
CHAMP_CAP == 30
\* extract_float_after(data, start_pos, max_len=20)
FLOAT_MAX_LEN == 20
\* window = part[:500] (optim_isal), part[:600] (new_isal)
HERO_WINDOW == 500
HERO_WINDOW_RE == 600
\* MAX_WORKERS = max(4, cpu_count() - 2), on a machine of at most 6 cores
MAX_WORKERS == 4

(* --------------------- Python bytes primitives ------------------------ *)
Min(a, b) == IF a < b THEN a ELSE b
Max(a, b) == IF a > b THEN a ELSE b

\* s[a:b] with 0-based, non-negative a and b
Slice(s, a, b) == SubSeq(s, a + 1, Min(b, Len(s)))
\* s[a:]
From(s, a) == SubSeq(s, a + 1, Len(s))

\* needle occurs in s at 0-based offset i
MatchAt(s, needle, i) ==
    /\ i >= 0
    /\ i + Len(needle) <= Len(s)
    /\ \A k \in 1..Len(needle) : s[i + k] = needle[k]

\* bytes.find(needle, start): the lowest offset >= start, or -1
Find(s, needle, start) ==
    LET hits == {i \in start..(Len(s) - Len(needle)) : MatchAt(s, needle, i)}
    IN IF hits = {} THEN -1 ELSE CHOOSE i \in hits : \A j \in hits : i <= j

\* bytes.rfind(needle): the highest offset, or -1
RFind(s, needle) ==
    LET hits == {i \in 0..(Len(s) - Len(needle)) : MatchAt(s, needle, i)}
    IN IF hits = {} THEN -1 ELSE CHOOSE i \in hits : \A j \in hits : i >= j

\* needle in s
Contains(s, needle) == Find(s, needle, 0) # -1

\* bytes.count(needle): non-overlapping occurrences, scanning from the left
RECURSIVE CountFrom(_, _, _)
CountFrom(s, needle, start) ==
    LET i == Find(s, needle, start)
    IN IF i = -1 THEN 0 ELSE 1 + CountFrom(s, needle, i + Len(needle))
\* count if it told only whether the needle occurs ("needle in s")
Count_Presence(s, needle) == IF Contains(s, needle) THEN 1 ELSE 0
Count(s, needle) == CountFrom(s, needle, 0)

\* bytes.split(sep): the pieces between non-overlapping occurrences of sep
RECURSIVE SplitFrom(_, _, _)
SplitFrom(s, sep, start) ==
    LET i == Find(s, sep, start)
    IN IF i = -1 THEN <<From(s, start)>>
       ELSE <<Slice(s, start, i)>> \o SplitFrom(s, sep, i + Len(sep))
Split(s, sep) == SplitFrom(s, sep, 0)

\* bytes.strip(): leading and trailing ASCII whitespace removed
RECURSIVE LStrip(_)
LStrip(s) == IF s # <<>> /\ Head(s) \in WHITESPACE THEN LStrip(Tail(s)) ELSE s
RECURSIVE RStrip(_)
RStrip(s) ==
    IF s # <<>> /\ s[Len(s)] \in WHITESPACE THEN RStrip(SubSeq(s, 1, Len(s) - 1)) ELSE s
Strip(s) == RStrip(LStrip(s))

\* bytes.decode('utf-8') succeeds: s is well-formed UTF-8
IsCont(b) == b \in 128..191
RECURSIVE IsUtf8(_)
IsUtf8(s) ==
    IF s = <<>> THEN TRUE
    ELSE LET b == s[1]
             n == Len(s)
         IN IF b < 128 THEN IsUtf8(Tail(s))
            ELSE IF b \in 194..223
                 THEN n >= 2 /\ IsCont(s[2]) /\ IsUtf8(From(s, 2))
            ELSE IF b \in 224..239
                 THEN /\ n >= 3
                      /\ IsCont(s[2]) /\ IsCont(s[3])
                      /\ (b = 224 => s[2] >= 160)
                      /\ (b = 237 => s[2] <= 159)
                      /\ IsUtf8(From(s, 3))
            ELSE IF b \in 240..244
                 THEN /\ n >= 4
                      /\ IsCont(s[2]) /\ IsCont(s[3]) /\ IsCont(s[4])
                      /\ (b = 240 => s[2] >= 144)
                      /\ (b = 244 => s[2] <= 143)
                      /\ IsUtf8(From(s, 4))
            ELSE FALSE

\* the order of sorted() on str and on (str, str) pairs: lexicographic
RECURSIVE LexLess(_, _)
LexLess(a, b) ==
    IF b = <<>> THEN FALSE
    ELSE IF a = <<>> THEN TRUE
    ELSE IF a[1] # b[1] THEN a[1] < b[1]
    ELSE LexLess(Tail(a), Tail(b))

\* sorted(S, reverse=True)
RECURSIVE Sorted_Descending(_)
Sorted_Descending(S) ==
    IF S = {} THEN <<>>
    ELSE LET m == CHOOSE x \in S : \A y \in S \ {x} : LexLess(y, x)
         IN <<m>> \o Sorted_Descending(S \ {m})

\* sorted(S) for a set S of str
RECURSIVE Sorted(_)
Sorted(S) ==
    IF S = {} THEN <<>>
    ELSE LET m == CHOOSE x \in S : \A y \in S \ {x} : LexLess(x, y)
         IN <<m>> \o Sorted(S \ {m})

\* sep.join(parts)
RECURSIVE Join(_, _)
Join(sep, parts) ==
    IF parts = <<>> THEN <<>>
    ELSE IF Len(parts) = 1 THEN parts[1]
    ELSE parts[1] \o sep \o Join(sep, Tail(parts))

(* ------------------------------ floats -------------------------------- *)
\* A float that float() parsed from a decimal literal is kept exactly, as
\* n / d with d a power of ten and no trailing zero in n (12.50 = 12.5).
\* The literals of the model have few digits, so no rounding to a double
\* and no 32-bit overflow of n occurs.
RECURSIVE Norm(_)
Norm(f) == IF f.d > 1 /\ f.n % 10 = 0 THEN Norm([n |-> f.n \div 10, d |-> f.d \div 10]) ELSE f
ZeroFloat == [n |-> 0, d |-> 1]
FloatGt(a, b) == a.n * b.d > b.n * a.d
NoFloat == [ok |-> FALSE, n |-> 0, d |-> 1]

RECURSIVE DigitsValue(_, _)
DigitsValue(s, acc) ==
    IF s = <<>> THEN acc
    ELSE IF Head(s) = DOT THEN DigitsValue(Tail(s), acc)
    ELSE DigitsValue(Tail(s), 10 * acc + (Head(s) - 48))

RECURSIVE Pow10(_)
Pow10(k) == IF k = 0 THEN 1 ELSE 10 * Pow10(k - 1)

\* float(b): b holds only digits and dots; ValueError (NoFloat) unless it has
\* a digit and at most one dot
ParseFloat(b) ==
    LET dots == {i \in 1..Len(b) : b[i] = DOT}
        ndig == Len(b) - Cardinality(dots)
    IN IF ndig = 0 \/ Cardinality(dots) > 1 THEN NoFloat
       ELSE LET frac == IF dots = {} THEN 0 ELSE Len(b) - (CHOOSE i \in dots : TRUE)
                f == Norm([n |-> DigitsValue(b, 0), d |-> Pow10(frac)])
            IN [ok |-> TRUE, n |-> f.n, d |-> f.d]

\* the loop of extract_float_after: bytes outside [0-9.] are passed over
\* until the first digit or dot, and end the run after it
RECURSIVE CollectNum(_, _, _, _)
CollectNum(data, i, stop, num_bytes) ==
    IF i >= stop THEN num_bytes
    ELSE LET c == data[i + 1]
         IN IF c \in DIGITS \cup {DOT} THEN CollectNum(data, i + 1, stop, Append(num_bytes, c))
            ELSE IF num_bytes # <<>> THEN num_bytes
            ELSE CollectNum(data, i + 1, stop, num_bytes)

\* extract_float_after if the loop ran to the end of data: range(start_pos, len(data))
extract_float_after_Unbounded(data, start_pos, max_len) ==
    LET num_bytes == CollectNum(data, start_pos, Len(data), <<>>)
    IN IF num_bytes # <<>> THEN ParseFloat(num_bytes) ELSE NoFloat

extract_float_after(data, start_pos, max_len) ==
    LET end == start_pos + max_len
        num_bytes == CollectNum(data, start_pos, Min(end, Len(data)), <<>>)
    IN IF num_bytes # <<>> THEN ParseFloat(num_bytes) ELSE NoFloat

\* round(a / b) to the nearest integer, a tie going to the even one (a, b >= 0, b > 0)
RoundDiv(a, b) ==
    LET q == a \div b
        r == a % b
    IN IF 2 * r > b THEN q + 1
       ELSE IF 2 * r < b THEN q
       ELSE IF q % 2 = 0 THEN q ELSE q + 1

(* -------------------- optim_isal: GameStats and scanning -------------- *)
\* a dict str -> str is a function on a finite set of byte sequences
EmptyDict == [k \in {} |-> <<>>]
DictSet(h, k, v) == [x \in (DOMAIN h) \cup {k} |-> IF x = k THEN v ELSE h[x]]
\* dict.update(other)
DictUpdate(h, other) ==
    [x \in (DOMAIN h) \cup (DOMAIN other) |-> IF x \in DOMAIN other THEN other[x] ELSE h[x]]

new_game_stats ==
    [deaths |-> 0, spells |-> 0, attacks |-> 0, damage |-> 0, items |-> 0,
     champs |-> {}, size_bytes |-> 0, max_time |-> ZeroFloat, hero_net_ids |-> EmptyDict]

\* ChampNames if only the first occurrence of the marker were examined
ChampNames_FirstOnly(parts, k) ==
    IF k > Len(parts) THEN {}
    ELSE LET p == parts[k]
             end == Find(p, <<QUOTE>>, 0)
             name == Slice(p, 0, end)
         IN IF 0 < end /\ end < CHAMP_CAP /\ IsUtf8(name) THEN {name} ELSE {}

\* lines 79-87: the names after every "champion":" whose closing quote is at
\* offset 1..29 and whose bytes decode
RECURSIVE ChampNames(_, _)
ChampNames(parts, k) ==
    IF k > Len(parts) THEN {}
    ELSE LET p == parts[k]
             end == Find(p, <<QUOTE>>, 0)
             name == Slice(p, 0, end)
         IN (IF 0 < end /\ end < CHAMP_CAP /\ IsUtf8(name) THEN {name} ELSE {})
            \cup ChampNames(parts, k + 1)

ScanChamps(chunk) ==
    IF Contains(chunk, P_CHAMP_PRE) THEN ChampNames(Split(chunk, P_CHAMP_PRE), 2) ELSE {}

\* ScanTime if the marker were "time" without its colon
ScanTime_LooseMarker(chunk, max_time) ==
    LET last_time_pos == RFind(chunk, K_TIME)
    IN IF last_time_pos = -1 THEN max_time
       ELSE LET t == extract_float_after(chunk, last_time_pos + Len(K_TIME), FLOAT_MAX_LEN)
                v == [n |-> t.n, d |-> t.d]
            IN IF t.ok /\ t.n # 0 /\ FloatGt(v, max_time) THEN v ELSE max_time

\* lines 90-94: the value after the last "time": when it is a non-zero float
\* above the maximum so far
ScanTime(chunk, max_time) ==
    LET last_time_pos == RFind(chunk, P_TIME)
    IN IF last_time_pos = -1 THEN max_time
       ELSE LET t == extract_float_after(chunk, last_time_pos + Len(P_TIME), FLOAT_MAX_LEN)
                v == [n |-> t.n, d |-> t.d]
            IN IF t.ok /\ t.n # 0 /\ FloatGt(v, max_time) THEN v ELSE max_time

\* line 107: the end of the run of digits and spaces that starts at nid_end
RECURSIVE NidEnd(_, _)
NidEnd(window, nid_end) ==
    IF nid_end < Len(window) /\ window[nid_end + 1] \in DIGITS \cup {SPACE}
    THEN NidEnd(window, nid_end + 1)
    ELSE nid_end

\* lines 99-124, one part after a "CreateHero": the dict with the pair of the
\* part added, or the dict as it was
HeroOfPart(part, hero_net_ids) ==
    LET window == Slice(part, 0, HERO_WINDOW)
        nid_pos == Find(window, P_NET_ID, 0)
    IN IF nid_pos = -1 THEN hero_net_ids
       ELSE LET nid_start == nid_pos + Len(P_NET_ID)
                nid_end == NidEnd(window, nid_start)
                net_id == Strip(Slice(window, nid_start, nid_end))
                champ_pos == Find(window, P_CHAMP_PRE, 0)
            IN IF champ_pos = -1 THEN hero_net_ids
               ELSE LET champ_start == champ_pos + Len(P_CHAMP_PRE)
                        champ_end == Find(window, <<QUOTE>>, champ_start)
                        champ == Slice(window, champ_start, champ_end)
                    IN IF champ_end # -1 /\ IsUtf8(champ)
                       THEN DictSet(hero_net_ids, net_id, champ)
                       ELSE hero_net_ids

RECURSIVE HeroesOfParts(_, _, _)
HeroesOfParts(parts, k, hero_net_ids) ==
    IF k > Len(parts) THEN hero_net_ids
    ELSE HeroesOfParts(parts, k + 1, HeroOfPart(parts[k], hero_net_ids))

ScanHeroes(chunk, hero_net_ids) ==
    IF Contains(chunk, P_CREATE_HERO)
    THEN HeroesOfParts(Split(chunk, P_CREATE_HERO), 2, hero_net_ids)
    ELSE hero_net_ids

\* process_game_chunk of optim_isal: the stats after the chunk is observed
process_game_chunk(chunk, stats) ==
    [deaths |-> stats.deaths + Count(chunk, P_DEATH),
     spells |-> stats.spells + Count(chunk, P_SPELL),
     attacks |-> stats.attacks + Count(chunk, P_ATTACK),
     damage |-> stats.damage + Count(chunk, P_DAMAGE),
     items |-> stats.items + Count(chunk, P_ITEM),
     champs |-> stats.champs \cup ScanChamps(chunk),
     size_bytes |-> stats.size_bytes + Len(chunk),
     max_time |-> ScanTime(chunk, stats.max_time),
     hero_net_ids |-> ScanHeroes(chunk, stats.hero_net_ids)]

\* HeroMapping if each entry were written f"{name}:{nid}"
HeroMapping_NameFirst(hero_net_ids) ==
    LET keys == Sorted(DOMAIN hero_net_ids)
    IN Join(<<PIPE>>, [i \in 1..Len(keys) |-> hero_net_ids[keys[i]] \o <<COLON>> \o keys[i]])

\* "|".join(f"{nid}:{name}" for nid, name in sorted(hero_net_ids.items()))
HeroMapping(hero_net_ids) ==
    LET keys == Sorted(DOMAIN hero_net_ids)
    IN Join(<<PIPE>>, [i \in 1..Len(keys) |-> keys[i] \o <<COLON>> \o hero_net_ids[keys[i]]])

\* finalize_stats of optim_isal. size_mb and duration_min are in hundredths,
\* duration_sec in tenths; the time literals of the model have at most one
\* decimal and are no odd multiple of 0.3, so no rounding tie arises.
finalize_stats(stats, filename, patch, game_idx) ==
    [file |-> filename,
     game_idx |-> game_idx,
     patch |-> patch,
     size_mb |-> RoundDiv(stats.size_bytes * 100, 1024 * 1024),
     duration_sec |-> RoundDiv(stats.max_time.n * 10, stats.max_time.d),
     duration_min |-> RoundDiv(stats.max_time.n * 100, stats.max_time.d * 60),
     deaths |-> stats.deaths,
     spells |-> stats.spells,
     attacks |-> stats.attacks,
     damage |-> stats.damage,
     items |-> stats.items,
     n_champs |-> Cardinality(stats.champs),
     champs |-> Join(<<PIPE>>, Sorted(stats.champs)),
     hero_net_ids |-> HeroMapping(stats.hero_net_ids),
     n_heroes |-> Cardinality(DOMAIN stats.hero_net_ids)]

(* --------------------- new_isal: regex based scanning ----------------- *)
P_GOLD_ON_DEATH == <<34,109,66,97,115,101,71,111,108,100,71,105,118,101,110,79,110,68,101,97,116,104,34>>  \* "mBaseGoldGivenOnDeath"
P_NEUTRAL_KILLS == <<34,109,78,117,109,78,101,117,116,114,97,108,77,105,110,105,111,110,115,75,105,108,108,101,100,34>>  \* "mNumNeutralMinionsKilled"
K_FLOAT == <<34,70,108,111,97,116,34>>  \* "Float"
\* chunk[max(0, idx-300):idx] and chunk[idx:idx+100] of extract_replication_field
KEY_WINDOW == 300
VALUE_WINDOW == 100
\* \d{9,12}
KEY_MIN_DIGITS == 9
KEY_MAX_DIGITS == 12

\* the offset after the longest run of bytes of set S that starts at offset i
RECURSIVE RunEnd(_, _, _)
RunEnd(s, i, S) == IF i < Len(s) /\ s[i + 1] \in S THEN RunEnd(s, i + 1, S) ELSE i

\* key\s*:\s* matched at offset i: the offset after it, or -1
KeyColonAt(s, key, i) ==
    IF ~MatchAt(s, key, i) THEN -1
    ELSE LET a == RunEnd(s, i + Len(key), WHITESPACE)
         IN IF a < Len(s) /\ s[a + 1] = COLON THEN RunEnd(s, a + 1, WHITESPACE) ELSE -1

\* key\s*:\s*(RUN+) matched at offset i, RUN a byte class: the group, or <<>>
NumberAt(s, key, i, S) ==
    LET a == KeyColonAt(s, key, i)
    IN IF a = -1 THEN <<>> ELSE Slice(s, a, RunEnd(s, a, S))

\* key\s*:\s*"([^"]+)" matched at offset i: the group, or <<>>
QuotedAt(s, key, i) ==
    LET a == KeyColonAt(s, key, i)
    IN IF a = -1 \/ a >= Len(s) \/ s[a + 1] # QUOTE THEN <<>>
       ELSE LET close == Find(s, <<QUOTE>>, a + 1)
            IN IF close = -1 THEN <<>> ELSE Slice(s, a + 1, close)

\* the lowest element of a non-empty set of offsets
Lowest(S) == CHOOSE i \in S : \A j \in S : i <= j

\* RE_NET_ID.search(window).group(1), or <<>> when there is no match
SearchNetId(window) ==
    LET hits == {i \in 0..(Len(window) - 1) : NumberAt(window, K_NET_ID, i, DIGITS) # <<>>}
    IN IF hits = {} THEN <<>> ELSE NumberAt(window, K_NET_ID, Lowest(hits), DIGITS)

\* RE_CHAMP_NAME.search / RE_SKIN_NAME.search: group(1), or <<>> when no match
SearchQuoted(window, key) ==
    LET hits == {i \in 0..(Len(window) - 1) : QuotedAt(window, key, i) # <<>>}
    IN IF hits = {} THEN <<>> ELSE QuotedAt(window, key, Lowest(hits))

\* lines 74-91, one part after a "CreateHero". acc is [raised, heroes]:
\* a .decode('utf-8') of line 84 or 89 that fails raises UnicodeDecodeError,
\* which nothing in extract_create_hero_info or process_game_chunk catches
HeroInfoOfPart(part, acc) ==
    LET window == Slice(part, 0, HERO_WINDOW_RE)
        net_id == SearchNetId(window)
        champ == SearchQuoted(window, K_CHAMPION)
        skin == SearchQuoted(window, K_SKIN_NAME)
        name == IF champ # <<>> THEN champ ELSE skin
    IN IF acc.raised \/ net_id = <<>> THEN acc
       ELSE IF ~IsUtf8(name) THEN [acc EXCEPT !.raised = TRUE]
       ELSE [acc EXCEPT !.heroes = DictSet(acc.heroes, net_id, name)]

RECURSIVE HeroInfoOfParts(_, _, _)
HeroInfoOfParts(parts, k, acc) ==
    IF k > Len(parts) THEN acc
    ELSE HeroInfoOfParts(parts, k + 1, HeroInfoOfPart(parts[k], acc))

extract_create_hero_info(chunk) ==
    HeroInfoOfParts(Split(chunk, P_CREATE_HERO), 2, [raised |-> FALSE, heroes |-> EmptyDict])

\* the group of the last match of "(\d{9,12})"\s*: in search_window, or <<>>
KeyAt(w, i) ==
    IF i >= Len(w) \/ w[i + 1] # QUOTE THEN <<>>
    ELSE LET e == RunEnd(w, i + 1, DIGITS)
             a == RunEnd(w, e + 1, WHITESPACE)
         IN IF /\ e - (i + 1) >= KEY_MIN_DIGITS
               /\ e - (i + 1) <= KEY_MAX_DIGITS
               /\ e < Len(w) /\ w[e + 1] = QUOTE
               /\ a < Len(w) /\ w[a + 1] = COLON
            THEN Slice(w, i + 1, e)
            ELSE <<>>

\* LastKey if the first match were taken: net_id_matches[0]
LastKey_First(search_window) ==
    LET hits == {i \in 0..(Len(search_window) - 1) : KeyAt(search_window, i) # <<>>}
    IN IF hits = {} THEN <<>> ELSE KeyAt(search_window, Lowest(hits))

LastKey(search_window) ==
    LET hits == {i \in 0..(Len(search_window) - 1) : KeyAt(search_window, i) # <<>>}
    IN IF hits = {} THEN <<>>
       ELSE KeyAt(search_window, CHOOSE i \in hits : \A j \in hits : i >= j)

\* lines 121-139, the occurrence of the field at offset idx: the (net_id, value)
\* pair appended to results, or nothing
ObservationAt(chunk, idx) ==
    LET net_id == LastKey(Slice(chunk, Max(0, idx - KEY_WINDOW), idx))
        value_window == Slice(chunk, idx, idx + VALUE_WINDOW)
        hits == {i \in 0..(Len(value_window) - 1) :
                    NumberAt(value_window, K_FLOAT, i, DIGITS \cup {DOT}) # <<>>}
        value == IF hits = {} THEN NoFloat
                 ELSE ParseFloat(NumberAt(value_window, K_FLOAT, Lowest(hits),
                                          DIGITS \cup {DOT}))
    IN IF net_id # <<>> /\ value.ok
       THEN <<[net_id |-> net_id, value |-> [n |-> value.n, d |-> value.d]]>>
       ELSE <<>>

\* NextPos if the search went on from the occurrence itself: pos = idx
NextPos_Stays(idx, field_pattern) == idx

\* line 141: the offset the search goes on from after the occurrence at idx
NextPos(idx, field_pattern) == idx + Len(field_pattern)

\* the loop of lines 114-141 from offset pos on: the (net_id, value) pairs
RECURSIVE ReplicationFrom(_, _, _)
ReplicationFrom(chunk, field_pattern, pos) ==
    LET idx == Find(chunk, field_pattern, pos)
    IN IF idx = -1 THEN <<>>
       ELSE ObservationAt(chunk, idx)
            \o ReplicationFrom(chunk, field_pattern, NextPos(idx, field_pattern))

extract_replication_field(chunk, field_pattern) == ReplicationFrom(chunk, field_pattern, 0)

\* lines 181-187: the maximum of max_time and of every RE_TIME match that parses
ScanTimeRe(chunk, max_time) ==
    LET hits == {i \in 0..(Len(chunk) - 1) : NumberAt(chunk, K_TIME, i, DIGITS \cup {DOT}) # <<>>}
        vals == {ParseFloat(NumberAt(chunk, K_TIME, i, DIGITS \cup {DOT})) : i \in hits}
        good == {[n |-> v.n, d |-> v.d] : v \in {x \in vals : x.ok}} \cup {max_time}
    IN CHOOSE m \in good : \A o \in good : ~FloatGt(o, m)

new_game_stats_re ==
    [deaths |-> 0, spells |-> 0, attacks |-> 0, damage |-> 0, items |-> 0,
     champs |-> {}, size_bytes |-> 0, hero_net_ids |-> EmptyDict,
     gold_on_death_events |-> <<>>, neutral_kills_events |-> <<>>, max_time |-> ZeroFloat]

\* process_game_chunk of new_isal raises on this chunk
ChunkRaises(chunk) ==
    Contains(chunk, P_CREATE_HERO) /\ extract_create_hero_info(chunk).raised

\* process_game_chunk of new_isal: the stats after a chunk that does not raise
process_game_chunk_re(chunk, stats) ==
    [deaths |-> stats.deaths + Count(chunk, P_DEATH),
     spells |-> stats.spells + Count(chunk, P_SPELL),
     attacks |-> stats.attacks + Count(chunk, P_ATTACK),
     damage |-> stats.damage + Count(chunk, P_DAMAGE),
     items |-> stats.items + Count(chunk, P_ITEM),
     champs |-> stats.champs \cup ScanChamps(chunk),
     size_bytes |-> stats.size_bytes + Len(chunk),
     hero_net_ids |-> IF Contains(chunk, P_CREATE_HERO)
                      THEN DictUpdate(stats.hero_net_ids, extract_create_hero_info(chunk).heroes)
                      ELSE stats.hero_net_ids,
     gold_on_death_events |-> stats.gold_on_death_events
                              \o extract_replication_field(chunk, P_GOLD_ON_DEATH),
     neutral_kills_events |-> stats.neutral_kills_events
                              \o extract_replication_field(chunk, P_NEUTRAL_KILLS),
     max_time |-> ScanTimeRe(chunk, stats.max_time)]

\* str(k) for an integer k >= 0
RECURSIVE IntToBytes(_)
IntToBytes(k) == IF k < 10 THEN <<48 + k>> ELSE IntToBytes(k \div 10) \o <<48 + (k % 10)>>

\* lines 200-204: "|".join(f"{nid}:{int(val)}") over the heroes' largest values
NeutralKills(events) ==
    LET nids == {events[i].net_id : i \in 1..Len(events)}
        best(nid) == LET vs == {events[i].value : i \in {j \in 1..Len(events) : events[j].net_id = nid}}
                     IN CHOOSE m \in vs : \A o \in vs : ~FloatGt(o, m)
        keys == Sorted(nids)
    IN Join(<<PIPE>>, [i \in 1..Len(keys) |->
                          keys[i] \o <<COLON>> \o IntToBytes(best(keys[i]).n \div best(keys[i]).d)])

\* finalize_stats of new_isal
finalize_stats_re(stats, filename, patch, game_idx) ==
    [file |-> filename,
     game_idx |-> game_idx,
     patch |-> patch,
     size_mb |-> RoundDiv(stats.size_bytes * 100, 1024 * 1024),
     deaths |-> stats.deaths,
     spells |-> stats.spells,
     attacks |-> stats.attacks,
     damage |-> stats.damage,
     items |-> stats.items,
     n_champs |-> Cardinality(stats.champs),
     champs |-> Join(<<PIPE>>, Sorted(stats.champs)),
     hero_net_ids |-> HeroMapping(stats.hero_net_ids),
     n_heroes |-> Cardinality(DOMAIN stats.hero_net_ids),
     gold_death_net_ids |->
         Join(<<PIPE>>, Sorted({stats.gold_on_death_events[i].net_id :
                                   i \in 1..Len(stats.gold_on_death_events)})),
     n_gold_death_events |-> Len(stats.gold_on_death_events),
     neutral_kills |-> NeutralKills(stats.neutral_kills_events),
     duration_sec |-> RoundDiv(stats.max_time.n * 10, stats.max_time.d),
     duration_min |-> RoundDiv(stats.max_time.n * 100, stats.max_time.d * 60)]

(* ----------------------- file identity of a path ---------------------- *)
SLASH == 47
BACKSLASH == 92
UNKNOWN == <<117,110,107,110,111,119,110>>  \* unknown
PATCH_PREFIXES == {<<49,50,95>>, <<49,51,95>>, <<49,52,95>>}  \* ("12_", "13_", "14_")

\* os.path.basename(file_path), for the paths of the model, which hold no
\* backslash and no drive letter
Basename(path) ==
    LET parts == Split(path, <<SLASH>>) IN parts[Len(parts)]

\* file_path.replace("\\", "/")
ReplaceBackslash(path) == [i \in 1..Len(path) |-> IF path[i] = BACKSLASH THEN SLASH ELSE path[i]]

\* lines 152-157: the first segment that starts with 12_, 13_ or 14_
RECURSIVE FirstPatch(_, _)
FirstPatch(parts, k) ==
    IF k > Len(parts) THEN UNKNOWN
    ELSE IF \E pre \in PATCH_PREFIXES : MatchAt(parts[k], pre, 0) THEN parts[k]
    ELSE FirstPatch(parts, k + 1)

PatchOf(path) == FirstPatch(Split(ReplaceBackslash(path), <<SLASH>>), 1)

(* ------------------------------ inputs -------------------------------- *)
BODY_X == <<120>>  \* x
BODY_CHAMP == <<34,99,104,97,109,112,105,111,110,34,58,34,65,104,114,105,34>>  \* "champion":"Ahri"
BODY_EVENTS == <<34,72,101,114,111,68,105,101,34,34,116,105,109,101,34,58,50,46,53>>  \* "HeroDie""time":2.5
\* "CreateHero""net_id":7"champion":"\xff": a name that is no UTF-8
BODY_BAD == <<34,67,114,101,97,116,101,72,101,114,111,34,34,110,101,116,95,105,100,34,58,55,34,99,104,97,109,112,105,111,110,34,58,34,255,34>>
\* the bytes between two newlines of a stream
Bodies == {<<>>, <<SPACE>>, BODY_X, BODY_CHAMP, BODY_EVENTS, BODY_BAD}
TinyBodies == {<<>>, BODY_X}

\* every stream of at most maxNl newlines whose lines are taken from bodies
StreamsOf(bodies, maxNl) ==
    {Join(<<NL>>, ls) : ls \in UNION {[1..k -> bodies] : k \in 1..(maxNl + 1)}}

\* sorted(glob.glob(pattern)): the paths are distinct and in sorted order
Paths == << <<49,50,95,50,47,97>>, <<99>>, <<120,47,49,52,95,51,47,100>>, <<121>> >>  \* 12_2/a c x/14_3/d y

(* ------------------------------- state -------------------------------- *)
VARIABLES
    HAS_TQDM,       \* whether "from tqdm import tqdm" succeeded
    call,           \* a function called on its own: its arguments and what it gave
    impl,           \* which script runs: "optim_isal", "new_isal" or
                    \*   "generate_metadata_with_timer"
    files,          \* the sorted glob result: a sequence of [path, stream]
    mainpc,         \* main: "submit", "collect", "done"
    all_rows,       \* main: the merged rows
    printed,        \* main: the error lines printed
    collected,      \* main: the futures as_completed has yielded
    csv,            \* main: the rows written to metadata_per_game.csv
    pc,             \* per file: "idle", "queued", "read", "line", "finalize",
                    \*           "tail", "tail_finalize", "done"
    pos,            \* per file: the bytes of the stream f.read has returned
    buffer,         \* per file: the carry-over buffer
    lines,          \* per file: the complete_lines the for loop has yet to visit
    current_stats,  \* per file: the GameStats being filled
    results,        \* per file: the rows appended so far
    game_idx,       \* per file: the next record index
    ret,            \* per file: the pair process_file_per_game returned
    history         \* per file, never read by the program: what the call has done,
                    \*   [records: every complete line segmented, final: the tail
                    \*    Record, rows: every row appended to results]

vars == <<HAS_TQDM, call, impl, files, mainpc, all_rows, printed, collected, csv, pc, pos, buffer,
          lines, current_stats, results, game_idx, ret, history>>
mainVars == <<mainpc, all_rows, printed, collected, csv>>
\* everything but call: the state of a run of a script
runVars == <<HAS_TQDM, impl, files, mainpc, all_rows, printed, collected, csv, pc, pos,
             buffer, lines, current_stats, results, game_idx, ret, history>>

Workers == 1..Len(files)
NewStats == IF impl = "new_isal" THEN new_game_stats_re ELSE new_game_stats
Observed(line, stats) ==
    IF impl = "new_isal" THEN process_game_chunk_re(line, stats)
    ELSE process_game_chunk(line, stats)
Raises(line) == impl = "new_isal" /\ ChunkRaises(line)
Finalized(stats, path, idx) ==
    IF impl = "new_isal" THEN finalize_stats_re(stats, Basename(path), PatchOf(path), idx)
    ELSE finalize_stats(stats, Basename(path), PatchOf(path), idx)

NoReturn == [kind |-> "pending", data |-> <<>>, cause |-> "none", file |-> <<>>]
\* return results, None
ReturnRows(rows) == [kind |-> "rows", data |-> rows, cause |-> "none", file |-> <<>>]
\* return None, f"Error {filename}: {e}"
ReturnError(path, e) == [kind |-> "error", data |-> <<>>, cause |-> e, file |-> Basename(path)]

\* no function is being called on its own
NoCall == [op |-> "none"]

InitState(fs, im, tq, c) ==
    /\ HAS_TQDM = tq
    /\ call = c
    /\ impl = im
    /\ files = fs
    /\ mainpc = "submit"
    /\ all_rows = <<>>
    /\ printed = <<>>
    /\ collected = {}
    /\ csv = [written |-> FALSE, rows |-> <<>>]
    /\ pc = [i \in 1..Len(fs) |-> "idle"]
    /\ pos = [i \in 1..Len(fs) |-> 0]
    /\ buffer = [i \in 1..Len(fs) |-> <<>>]
    /\ lines = [i \in 1..Len(fs) |-> <<>>]
    /\ current_stats = [i \in 1..Len(fs) |->
                           IF im = "new_isal" THEN new_game_stats_re ELSE new_game_stats]
    /\ results = [i \in 1..Len(fs) |-> <<>>]
    /\ game_idx = [i \in 1..Len(fs) |-> 0]
    /\ ret = [i \in 1..Len(fs) |-> NoReturn]
    /\ history = [i \in 1..Len(fs) |-> [records |-> <<>>, final |-> <<>>, rows |-> <<>>]]

\* a run of a script over the files fs; in optim_isal and new_isal HAS_TQDM only
\* decides whether the progress bar is drawn
InitOf(fs, im) == InitState(fs, im, TRUE, NoCall)

\* optim_isal on one file of any stream of Bodies
Init ==
    \E s \in StreamsOf(Bodies, MaxNewlines) :
        InitOf(<<[path |-> Paths[1], stream |-> s]>>, "optim_isal")

\* new_isal on one file of any stream of Bodies
InitRe ==
    \E s \in StreamsOf(Bodies, MaxNewlines) :
        InitOf(<<[path |-> Paths[1], stream |-> s]>>, "new_isal")

\* optim_isal's main over up to MaxFiles files of tiny streams
InitMain ==
    \E n \in 0..Min(MaxFiles, Len(Paths)) :
        \E ss \in [1..n -> StreamsOf(TinyBodies, 1)] :
            InitOf([i \in 1..n |-> [path |-> Paths[i], stream |-> ss[i]]], "optim_isal")

(* ------------------------- main: the file set ------------------------- *)
\* new_isal's main keeps files[0] only (line 280)
Submitted == IF impl = "new_isal" THEN {i \in Workers : i = 1} ELSE Workers

\* futures = {executor.submit(process_file_per_game, f): f for f in files}
Submit ==
    /\ mainpc = "submit"
    /\ mainpc' = "collect"
    /\ pc' = [i \in Workers |-> IF i \in Submitted THEN "queued" ELSE pc[i]]
    /\ UNCHANGED <<HAS_TQDM, call, impl, files, all_rows, printed, collected, csv, pos, buffer, lines,
                   current_stats, results, game_idx, ret, history>>

\* Collect if an error ended the run: the loop stops at the first failed file
Collect_AbortsOnError(i) ==
    /\ mainpc = "collect"
    /\ pc[i] = "done"
    /\ i \notin collected
    /\ collected' = collected \cup {i}
    /\ all_rows' = IF ret[i].kind = "rows" /\ ret[i].data # <<>>
                   THEN all_rows \o ret[i].data ELSE all_rows
    /\ printed' = IF ret[i].kind = "error"
                  THEN Append(printed, [file |-> ret[i].file, cause |-> ret[i].cause])
                  ELSE printed
    /\ mainpc' = IF ret[i].kind = "error" THEN "done" ELSE mainpc
    /\ UNCHANGED <<HAS_TQDM, call, impl, files, csv, pc, pos, buffer, lines, current_stats,
                   results, game_idx, ret, history>>

\* Collect if the rows of a file were merged one by one around the rows already
\* there, as workers appending to one shared list would leave them
Collect_Interleaves(i) ==
    /\ mainpc = "collect"
    /\ pc[i] = "done"
    /\ i \notin collected
    /\ collected' = collected \cup {i}
    /\ all_rows' = IF ret[i].kind = "rows" /\ ret[i].data # <<>>
                   THEN <<Head(ret[i].data)>> \o all_rows \o Tail(ret[i].data)
                   ELSE all_rows
    /\ printed' = IF ret[i].kind = "error"
                  THEN Append(printed, [file |-> ret[i].file, cause |-> ret[i].cause])
                  ELSE printed
    /\ UNCHANGED <<HAS_TQDM, call, impl, files, mainpc, csv, pc, pos, buffer, lines,
                   current_stats, results, game_idx, ret, history>>

\* one turn of "for future in as_completed(futures)": data, err = future.result()
Collect(i) ==
    /\ mainpc = "collect"
    /\ pc[i] = "done"
    /\ i \notin collected
    /\ collected' = collected \cup {i}
    /\ all_rows' = IF ret[i].kind = "rows" /\ ret[i].data # <<>>
                   THEN all_rows \o ret[i].data ELSE all_rows
    /\ printed' = IF ret[i].kind = "error"
                  THEN Append(printed, [file |-> ret[i].file, cause |-> ret[i].cause])
                  ELSE printed
    /\ UNCHANGED <<HAS_TQDM, call, impl, files, mainpc, csv, pc, pos, buffer, lines, current_stats,
                   results, game_idx, ret, history>>

\* the loop is over: the rows are written when there are any
WriteCsv ==
    /\ mainpc = "collect"
    /\ collected = Submitted
    /\ mainpc' = "done"
    /\ csv' = IF all_rows # <<>> THEN [written |-> TRUE, rows |-> all_rows] ELSE csv
    /\ UNCHANGED <<HAS_TQDM, call, impl, files, all_rows, printed, collected, pc, pos, buffer, lines,
                   current_stats, results, game_idx, ret, history>>

(* ------------------ a worker: process_file_per_game ------------------- *)
Running == {i \in Workers : pc[i] \notin {"idle", "queued", "done"}}

\* a pool process takes the task: lines 150-163
Start(i) ==
    /\ pc[i] = "queued"
    /\ Cardinality(Running) < MAX_WORKERS
    /\ pc' = [pc EXCEPT ![i] = "read"]
    /\ results' = [results EXCEPT ![i] = <<>>]
    /\ game_idx' = [game_idx EXCEPT ![i] = 0]
    /\ current_stats' = [current_stats EXCEPT ![i] = NewStats]
    /\ buffer' = [buffer EXCEPT ![i] = <<>>]
    /\ UNCHANGED <<HAS_TQDM, call, impl, files, mainVars, pos, lines, ret, history>>

\* the call returns value: the file is closed and the locals of the call are gone
Return(i, value) ==
    /\ ret' = [ret EXCEPT ![i] = value]
    /\ pc' = [pc EXCEPT ![i] = "done"]
    /\ pos' = [pos EXCEPT ![i] = 0]
    /\ buffer' = [buffer EXCEPT ![i] = <<>>]
    /\ lines' = [lines EXCEPT ![i] = <<>>]
    /\ current_stats' = [current_stats EXCEPT ![i] = NewStats]
    /\ results' = [results EXCEPT ![i] = <<>>]
    /\ game_idx' = [game_idx EXCEPT ![i] = 0]

\* after the for loop over complete_lines, or a skipped or finalized line
AfterLine(rest) == IF rest = <<>> THEN "read" ELSE "line"

\* ReadChunk if the buffer were not prepended: data = chunk
ReadChunk_NoCarry(i) ==
    /\ pc[i] = "read"
    /\ \E n \in 1..Min(MaxChunk, Len(files[i].stream) - pos[i]) :
        LET data == Slice(files[i].stream, pos[i], pos[i] + n)
            split == Split(data, <<NL>>)
            complete_lines == SubSeq(split, 1, Len(split) - 1)
        IN /\ pos' = [pos EXCEPT ![i] = pos[i] + n]
           /\ buffer' = [buffer EXCEPT ![i] = split[Len(split)]]
           /\ lines' = [lines EXCEPT ![i] = complete_lines]
           /\ history' = [history EXCEPT ![i].records = @ \o complete_lines]
           /\ pc' = [pc EXCEPT ![i] = AfterLine(complete_lines)]
    /\ UNCHANGED <<HAS_TQDM, call, impl, files, mainVars, current_stats, results, game_idx, ret>>

\* ReadChunk if the unfinished last piece were handled as a line too:
\* complete_lines = lines
ReadChunk_TailAsLine(i) ==
    /\ pc[i] = "read"
    /\ \E n \in 1..Min(MaxChunk, Len(files[i].stream) - pos[i]) :
        LET chunk == Slice(files[i].stream, pos[i], pos[i] + n)
            data == buffer[i] \o chunk
            split == Split(data, <<NL>>)
        IN /\ pos' = [pos EXCEPT ![i] = pos[i] + n]
           /\ buffer' = [buffer EXCEPT ![i] = split[Len(split)]]
           /\ lines' = [lines EXCEPT ![i] = split]
           /\ history' = [history EXCEPT ![i].records = @ \o split]
           /\ pc' = [pc EXCEPT ![i] = AfterLine(split)]
    /\ UNCHANGED <<HAS_TQDM, call, impl, files, mainVars, current_stats, results, game_idx, ret>>

\* ReadChunk if the buffer were cut one byte early: it keeps the last newline
ReadChunk_KeepsNewline(i) ==
    /\ pc[i] = "read"
    /\ \E n \in 1..Min(MaxChunk, Len(files[i].stream) - pos[i]) :
        LET chunk == Slice(files[i].stream, pos[i], pos[i] + n)
            data == buffer[i] \o chunk
            split == Split(data, <<NL>>)
            complete_lines == SubSeq(split, 1, Len(split) - 1)
        IN /\ pos' = [pos EXCEPT ![i] = pos[i] + n]
           /\ buffer' = [buffer EXCEPT ![i] =
                            IF Len(split) > 1 THEN <<NL>> \o split[Len(split)]
                            ELSE split[Len(split)]]
           /\ lines' = [lines EXCEPT ![i] = complete_lines]
           /\ history' = [history EXCEPT ![i].records = @ \o complete_lines]
           /\ pc' = [pc EXCEPT ![i] = AfterLine(complete_lines)]
    /\ UNCHANGED <<HAS_TQDM, call, impl, files, mainVars, current_stats, results, game_idx, ret>>

\* lines 168-175: f.read returns n > 0 bytes; data is split at the newlines
ReadChunk(i) ==
    /\ pc[i] = "read"
    /\ \E n \in 1..Min(MaxChunk, Len(files[i].stream) - pos[i]) :
        LET chunk == Slice(files[i].stream, pos[i], pos[i] + n)
            data == buffer[i] \o chunk
            split == Split(data, <<NL>>)
            complete_lines == SubSeq(split, 1, Len(split) - 1)
        IN /\ pos' = [pos EXCEPT ![i] = pos[i] + n]
           /\ buffer' = [buffer EXCEPT ![i] = split[Len(split)]]
           /\ lines' = [lines EXCEPT ![i] = complete_lines]
           /\ history' = [history EXCEPT ![i].records = @ \o complete_lines]
           /\ pc' = [pc EXCEPT ![i] = AfterLine(complete_lines)]
    /\ UNCHANGED <<HAS_TQDM, call, impl, files, mainVars, current_stats, results, game_idx, ret>>

\* SkipLine if a blank line took a record index
SkipLine_TakesIndex(i) ==
    /\ pc[i] = "line"
    /\ Strip(Head(lines[i])) = <<>>
    /\ lines' = [lines EXCEPT ![i] = Tail(lines[i])]
    /\ game_idx' = [game_idx EXCEPT ![i] = @ + 1]
    /\ pc' = [pc EXCEPT ![i] = AfterLine(Tail(lines[i]))]
    /\ UNCHANGED <<HAS_TQDM, call, impl, files, mainVars, pos, buffer, current_stats, results, ret, history>>

\* lines 178-179: a line that strips to nothing is passed over
SkipLine(i) ==
    /\ pc[i] = "line"
    /\ Strip(Head(lines[i])) = <<>>
    /\ lines' = [lines EXCEPT ![i] = Tail(lines[i])]
    /\ pc' = [pc EXCEPT ![i] = AfterLine(Tail(lines[i]))]
    /\ UNCHANGED <<HAS_TQDM, call, impl, files, mainVars, pos, buffer, current_stats, results, game_idx,
                   ret, history>>

\* line 180: process_game_chunk(line, current_stats)
ObserveLine(i) ==
    /\ pc[i] = "line"
    /\ Strip(Head(lines[i])) # <<>>
    /\ ~Raises(Head(lines[i]))
    /\ current_stats' = [current_stats EXCEPT ![i] = Observed(Head(lines[i]), @)]
    /\ pc' = [pc EXCEPT ![i] = "finalize"]
    /\ UNCHANGED <<HAS_TQDM, call, impl, files, mainVars, pos, buffer, lines, results, game_idx, ret, history>>

\* results.append(finalize_stats(current_stats, filename, patch, game_idx))
AppendRow(i) == Append(results[i], Finalized(current_stats[i], files[i].path, game_idx[i]))

\* FinalizeLine without line 182: game_idx is not advanced
FinalizeLine_NoIncrement(i) ==
    /\ pc[i] = "finalize"
    /\ results' = [results EXCEPT ![i] = AppendRow(i)]
    /\ history' = [history EXCEPT ![i].rows = Append(@, AppendRow(i)[Len(AppendRow(i))])]
    /\ current_stats' = [current_stats EXCEPT ![i] = NewStats]
    /\ lines' = [lines EXCEPT ![i] = Tail(lines[i])]
    /\ pc' = [pc EXCEPT ![i] = AfterLine(Tail(lines[i]))]
    /\ UNCHANGED <<HAS_TQDM, call, impl, files, mainVars, pos, buffer, ret, game_idx>>

\* FinalizeLine without line 183: the GameStats is kept for the next Record
FinalizeLine_NoReset(i) ==
    /\ pc[i] = "finalize"
    /\ results' = [results EXCEPT ![i] = AppendRow(i)]
    /\ history' = [history EXCEPT ![i].rows = Append(@, AppendRow(i)[Len(AppendRow(i))])]
    /\ game_idx' = [game_idx EXCEPT ![i] = @ + 1]
    /\ lines' = [lines EXCEPT ![i] = Tail(lines[i])]
    /\ pc' = [pc EXCEPT ![i] = AfterLine(Tail(lines[i]))]
    /\ UNCHANGED <<HAS_TQDM, call, impl, files, mainVars, pos, buffer, ret, current_stats>>

\* lines 181-183: the row is appended and a fresh GameStats is taken
FinalizeLine(i) ==
    /\ pc[i] = "finalize"
    /\ results' = [results EXCEPT ![i] = AppendRow(i)]
    /\ history' = [history EXCEPT ![i].rows = Append(@, AppendRow(i)[Len(AppendRow(i))])]
    /\ game_idx' = [game_idx EXCEPT ![i] = @ + 1]
    /\ current_stats' = [current_stats EXCEPT ![i] = NewStats]
    /\ lines' = [lines EXCEPT ![i] = Tail(lines[i])]
    /\ pc' = [pc EXCEPT ![i] = AfterLine(Tail(lines[i]))]
    /\ UNCHANGED <<HAS_TQDM, call, impl, files, mainVars, pos, buffer, ret>>

\* ReadEof if the empty chunk reset the carry buffer
ReadEof_DropsCarry(i) ==
    /\ pc[i] = "read"
    /\ pos[i] = Len(files[i].stream)
    /\ buffer' = [buffer EXCEPT ![i] = <<>>]
    /\ pc' = [pc EXCEPT ![i] = "tail"]
    /\ UNCHANGED <<HAS_TQDM, call, impl, files, mainVars, pos, lines, current_stats, results,
                   game_idx, ret, history>>

\* lines 168-170: f.read returns b"" at the end of the stream
ReadEof(i) ==
    /\ pc[i] = "read"
    /\ pos[i] = Len(files[i].stream)
    /\ pc' = [pc EXCEPT ![i] = "tail"]
    /\ UNCHANGED <<HAS_TQDM, call, impl, files, mainVars, pos, buffer, lines, current_stats, results,
                   game_idx, ret, history>>

\* line 185 false, line 192: a blank buffer gives no Record; return results, None
TailSkip(i) ==
    /\ pc[i] = "tail"
    /\ Strip(buffer[i]) = <<>>
    /\ Return(i, ReturnRows(results[i]))
    /\ UNCHANGED <<HAS_TQDM, call, impl, files, mainVars, history>>

\* ObserveTail under "if buffer:" in place of "if buffer.strip():"
ObserveTail_AnyBuffer(i) ==
    /\ pc[i] = "tail"
    /\ buffer[i] # <<>>
    /\ ~Raises(buffer[i])
    /\ current_stats' = [current_stats EXCEPT ![i] = Observed(buffer[i], @)]
    /\ history' = [history EXCEPT ![i].final = <<buffer[i]>>]
    /\ pc' = [pc EXCEPT ![i] = "tail_finalize"]
    /\ UNCHANGED <<HAS_TQDM, call, impl, files, mainVars, pos, buffer, lines, results, game_idx, ret>>

\* lines 185-186: the buffer is the last Record
ObserveTail(i) ==
    /\ pc[i] = "tail"
    /\ Strip(buffer[i]) # <<>>
    /\ ~Raises(buffer[i])
    /\ current_stats' = [current_stats EXCEPT ![i] = Observed(buffer[i], @)]
    /\ history' = [history EXCEPT ![i].final = <<buffer[i]>>]
    /\ pc' = [pc EXCEPT ![i] = "tail_finalize"]
    /\ UNCHANGED <<HAS_TQDM, call, impl, files, mainVars, pos, buffer, lines, results, game_idx, ret>>

\* lines 187 and 192: the last row is appended; return results, None
FinalizeTail(i) ==
    /\ pc[i] = "tail_finalize"
    /\ history' = [history EXCEPT ![i].rows = Append(@, AppendRow(i)[Len(AppendRow(i))])]
    /\ Return(i, ReturnRows(AppendRow(i)))
    /\ UNCHANGED <<HAS_TQDM, call, impl, files, mainVars>>

\* lines 189-190: gzip.open or f.read raises (an I/O or decompression error)
ReadFail(i) ==
    /\ pc[i] = "read"
    /\ Return(i, ReturnError(files[i].path, "read"))
    /\ UNCHANGED <<HAS_TQDM, call, impl, files, mainVars, history>>

\* new_isal lines 263, 272-273: process_game_chunk raises on a complete line
ObserveRaises(i) ==
    /\ pc[i] = "line"
    /\ Strip(Head(lines[i])) # <<>>
    /\ Raises(Head(lines[i]))
    /\ Return(i, ReturnError(files[i].path, "UnicodeDecodeError"))
    /\ UNCHANGED <<HAS_TQDM, call, impl, files, mainVars, history>>

\* new_isal lines 269, 272-273: process_game_chunk raises on the last Record
TailRaises(i) ==
    /\ pc[i] = "tail"
    /\ Strip(buffer[i]) # <<>>
    /\ Raises(buffer[i])
    /\ history' = [history EXCEPT ![i].final = <<buffer[i]>>]
    /\ Return(i, ReturnError(files[i].path, "UnicodeDecodeError"))
    /\ UNCHANGED <<HAS_TQDM, call, impl, files, mainVars>>

\* the steps of optim_isal (and of isal, whose loop is the same code)
Next ==
    \/ Submit
    \/ \E i \in Workers : Collect(i)
    \/ WriteCsv
    \/ \E i \in Workers : Start(i)
    \/ \E i \in Workers : ReadChunk(i)
    \/ \E i \in Workers : SkipLine(i)
    \/ \E i \in Workers : ObserveLine(i)
    \/ \E i \in Workers : FinalizeLine(i)
    \/ \E i \in Workers : ReadEof(i)
    \/ \E i \in Workers : TailSkip(i)
    \/ \E i \in Workers : ObserveTail(i)
    \/ \E i \in Workers : FinalizeTail(i)
    \/ \E i \in Workers : ReadFail(i)

\* the steps of new_isal: process_game_chunk can raise
NextRe ==
    \/ Next
    \/ \E i \in Workers : ObserveRaises(i)
    \/ \E i \in Workers : TailRaises(i)

\* optim_isal, one file of any content
Spec == Init /\ [][Next]_vars

\* new_isal, one file of any content
SpecRe == InitRe /\ [][NextRe]_vars

\* optim_isal's main over several files
SpecMain == InitMain /\ [][Next]_vars


(* ===================== what the claims are about ====================== *)
NonBlank(r) == Strip(r) # <<>>

\* the rows of the Records recs[k..], the first of them taking index idx:
\* a blank Record is passed over, every other one is observed into a fresh
\* GameStats and finalized
RECURSIVE RowsOfRecords(_, _, _, _)
RowsOfRecords(path, recs, k, idx) ==
    IF k > Len(recs) THEN <<>>
    ELSE IF ~NonBlank(recs[k]) THEN RowsOfRecords(path, recs, k + 1, idx)
    ELSE <<Finalized(Observed(recs[k], NewStats), path, idx)>>
         \o RowsOfRecords(path, recs, k + 1, idx + 1)

\* what process_file_per_game returns when one f.read returns the whole
\* stream: lines 172-187 with chunk = stream, so that complete_lines and
\* buffer are the pieces of stream.split(b'\n')
RowsOfStream(path, stream) == RowsOfRecords(path, Split(stream, <<NL>>), 1, 0)

\* the piece after the last newline of the stream
LastPiece(stream) == LET parts == Split(stream, <<NL>>) IN parts[Len(parts)]

\* the complete lines the for loop has visited: all but the pending ones
Visited(i) == SubSeq(history[i].records, 1, Len(history[i].records) - Len(lines[i]))

Returned(i) == pc[i] = "done" /\ ret[i].kind = "rows"
Failed(i) == pc[i] = "done" /\ ret[i].kind = "error"

\* C1: whatever non-empty chunks f.read cuts a stream into, process_file_per_game
\* returns the rows it returns when the whole stream arrives as one chunk: same
\* number of rows, same order, same fields (a cut inside "champion":"Ahri" included).
C1_ChunkingInvariant ==
    \A i \in Workers :
        Returned(i) => ret[i].data = RowsOfStream(files[i].path, files[i].stream)

\* the file "champion":"Ahri"\nx was read in chunks shorter than the literal,
\* and its first row lists the champion Ahri
C1_Witness ==
    /\ Returned(1)
    /\ MaxChunk < Len(BODY_CHAMP)
    /\ files[1].stream = BODY_CHAMP \o <<NL>> \o BODY_X
    /\ Len(ret[1].data) = 2
    /\ ret[1].data[1].champs = <<65, 104, 114, 105>>
    /\ ret[1].data[1].n_champs = 1

\* every complete line followed by a newline, then the final Record
RECURSIVE Terminated(_)
Terminated(recs) == IF recs = <<>> THEN <<>> ELSE Head(recs) \o <<NL>> \o Terminated(Tail(recs))
Reassembled(h) == Terminated(h.records) \o (IF h.final = <<>> THEN <<>> ELSE h.final[1])

\* the stream without its last piece when that piece is blank
WithoutBlankTail(stream) ==
    IF NonBlank(LastPiece(stream)) THEN stream
    ELSE Slice(stream, 0, Len(stream) - Len(LastPiece(stream)))

\* C2: for any stream and chunking, the Records the segmentation loop yields
\* (every complete line, blank ones too, and the final Record), with the
\* newlines put back, are the stream without its blank unterminated tail.
C2_Reassembly ==
    \A i \in Workers :
        Returned(i) => Reassembled(history[i]) = WithoutBlankTail(files[i].stream)

\* a stream of three lines, the middle one empty and the tail blank, was reassembled
C2_Witness ==
    /\ Returned(1)
    /\ files[1].stream = BODY_X \o <<NL, NL, SPACE>>
    /\ history[1].records = <<BODY_X, <<>> >>
    /\ history[1].final = <<>>

\* C3 (as claimed): when the chunk source fails after k Records were finalized,
\* the error names the file and the cause and the k rows stay in the result.
C3_PartialRowsKept ==
    \A i \in Workers :
        Failed(i) => /\ ret[i].file = Basename(files[i].path)
                     /\ ret[i].cause = "read"
                     /\ ret[i].data = history[i].rows

\* the rows of the non-blank Records visited so far, in stream order
ExpectedRows(i) ==
    RowsOfRecords(files[i].path,
                  Visited(i) \o (IF pc[i] = "done" THEN history[i].final ELSE <<>>), 1, 0)

\* C4: within one file the k-th row appended (from 0) carries game_idx = k and is
\* the row of the k-th non-blank Record of the stream, the final unterminated
\* Record included: no index is repeated, skipped or out of order.
C4_RowOrder ==
    \A i \in Workers :
        /\ \A k \in 1..Len(history[i].rows) : history[i].rows[k].game_idx = k - 1
        /\ history[i].rows = ExpectedRows(i)
        /\ Returned(i) => ret[i].data = history[i].rows

\* three rows were returned, the last for an unterminated Record
C4_Witness ==
    /\ Returned(1)
    /\ Len(ret[1].data) = 3
    /\ history[1].final # <<>>
    /\ ret[1].data[3].game_idx = 2

\* C5: after every chunk absorbed the carry-over buffer holds no newline byte.
C5_BufferHasNoNewline ==
    \A i \in Workers : \A k \in 1..Len(buffer[i]) : buffer[i][k] # NL

\* a chunk that held a newline was absorbed and left bytes in the buffer
C5_Witness ==
    /\ pc[1] = "line"
    /\ buffer[1] # <<>>
    /\ history[1].records # <<>>

\* the Record process_game_chunk was last called on, when a finalize is due
RecordInHand(i) == IF pc[i] = "finalize" THEN Head(lines[i]) ELSE buffer[i]

\* C6: whenever finalize_stats is called the GameStats holds one Record only:
\* size_bytes is that Record's length and every field is what that Record alone
\* gives; everywhere else the GameStats is a fresh one.
C6_OneRecordPerStats ==
    \A i \in Workers :
        IF pc[i] \in {"finalize", "tail_finalize"}
        THEN /\ current_stats[i].size_bytes = Len(RecordInHand(i))
             /\ current_stats[i] = Observed(RecordInHand(i), NewStats)
        ELSE current_stats[i] = NewStats

\* a second Record is about to be finalized after a first one that counted a death
C6_Witness ==
    /\ pc[1] = "finalize"
    /\ Len(results[1]) = 1
    /\ results[1][1].deaths = 1
    /\ current_stats[1].deaths = 0
    /\ current_stats[1].size_bytes = 1

\* C7: at the end of the stream the buffer becomes one final Record, with a row,
\* exactly when it is not blank: a stream that ends with a newline (or a blank
\* tail) gets no extra Record, an unterminated last Record still gets its row.
C7_FinalRecord ==
    \A i \in Workers :
        Returned(i) =>
            LET last == LastPiece(files[i].stream)
                n == Len(ret[i].data)
            IN IF NonBlank(last)
               THEN /\ history[i].final = <<last>>
                    /\ n = Len(SelectSeq(history[i].records, NonBlank)) + 1
                    /\ ret[i].data[n] = Finalized(Observed(last, NewStats), files[i].path, n - 1)
               ELSE /\ history[i].final = <<>>
                    /\ n = Len(SelectSeq(history[i].records, NonBlank))

\* a stream ending in a newline returned one row and no final Record
C7_Witness ==
    /\ Returned(1)
    /\ files[1].stream = BODY_X \o <<NL>>
    /\ Len(ret[1].data) = 1
    /\ history[1].final = <<>>

\* C8: a blank Record gives no row and no error and takes no record index: the
\* index and the number of rows are the number of non-blank Records visited, and
\* the only error a file of optim_isal can end with is a failed read.
C8_BlankRecordsSkipped ==
    \A i \in Workers :
        /\ pc[i] \in {"read", "line", "finalize", "tail"} =>
              /\ game_idx[i] = Len(SelectSeq(Visited(i), NonBlank))
              /\ Len(results[i]) = game_idx[i]
        /\ Returned(i) =>
              Len(ret[i].data) = Len(SelectSeq(history[i].records \o history[i].final, NonBlank))
        /\ Failed(i) => ret[i].cause = "read"

\* an empty Record between two others was passed over: two rows, indices 0 and 1
C8_Witness ==
    /\ Returned(1)
    /\ history[1].records = <<BODY_X, <<>> >>
    /\ history[1].final = <<BODY_X>>
    /\ Len(ret[1].data) = 2
    /\ ret[1].data[2].game_idx = 1

\* C9 (as claimed): a name that is no UTF-8 costs only that extraction: the file
\* does not fail on it, and every non-blank Record of the stream still has a row.
C9_DecodeErrorAbsorbed ==
    \A i \in Workers :
        (pc[i] = "done" /\ ret[i].cause # "read") =>
            /\ ret[i].kind = "rows"
            /\ Len(ret[i].data) =
                   Len(SelectSeq(Split(files[i].stream, <<NL>>), NonBlank))

\* the rows of all_rows that carry the file name of file i
RowsOfFile(i) ==
    LET OfFile(r) == r.file = Basename(files[i].path) IN SelectSeq(all_rows, OfFile)

\* C10: when the run is over, every file was collected, and all_rows holds, for
\* each file that returned rows, exactly the rows of that file, whichever other
\* files failed; a failed file adds no row.
C10_FailuresIsolated ==
    mainpc = "done" =>
        /\ collected = Workers
        /\ \A i \in Workers :
              /\ pc[i] = "done"
              /\ Returned(i) => RowsOfFile(i) = RowsOfStream(files[i].path, files[i].stream)
              /\ Failed(i) => RowsOfFile(i) = <<>>
        /\ csv.rows = all_rows

\* the run ended with the first file failed and the rows of the second merged
C10_Witness ==
    /\ mainpc = "done"
    /\ Len(files) = 2
    /\ Failed(1)
    /\ Returned(2)
    /\ Len(RowsOfFile(2)) = 2
    /\ Len(printed) = 1


(* ---- generate_metadata_with_timer.py: process_file_accurate and main ---- *)
\* b"{}"
EMPTY_OBJECT == <<123, 125>>

\* the lines the timer script is run on: a blank one, one that is not JSON
\* and the empty object
TimerBodies == {<<>>, BODY_X, EMPTY_OBJECT}

\* lines 65-66: game = fast_parse(line); events = game.get('events', []).
\* Of the lines of TimerBodies only "{}" is a JSON document: it parses to a dict
\* without events; on any other line the parser raises.
fast_parse(text_bytes) ==
    IF Strip(text_bytes) = EMPTY_OBJECT
    THEN [ok |-> TRUE, events |-> <<>>]
    ELSE [ok |-> FALSE, events |-> <<>>]

\* lines 62-63: the lines of the file that do not strip to nothing
AccurateLines(stream) == SelectSeq(Split(stream, <<NL>>), NonBlank)

\* lines 64-68 and 85: a line counts as a game when it parses; "except: continue"
ParsedOk(line) == fast_parse(line).ok

\* lines 44-58 and 90-95: the one row of a file that was read to its end. A game
\* without events adds nothing to deaths, damage, packets, champs or duration_sum;
\* avg_duration is in tenths.
process_file_accurate(path, stream) ==
    [file |-> Basename(path), patch |-> PatchOf(path),
     games |-> Len(SelectSeq(AccurateLines(stream), ParsedOk)),
     deaths |-> 0, damage |-> 0, packets |-> 0,
     champs |-> <<>>, n_champs |-> 0, avg_duration |-> 0]

\* the timer script over up to MaxFiles files, with and without tqdm
InitTimer ==
    \E n \in 0..Min(MaxFiles, Len(Paths)) :
        \E ss \in [1..n -> StreamsOf(TimerBodies, 1)] :
            \E tq \in BOOLEAN :
                InitState([i \in 1..n |-> [path |-> Paths[i], stream |-> ss[i]]],
                          "generate_metadata_with_timer", tq, NoCall)

\* lines 111-114: iterator = pool.imap_unordered(process_file_accurate, files)
SubmitTimer ==
    /\ mainpc = "submit"
    /\ mainpc' = "collect"
    /\ pc' = [i \in Workers |-> "queued"]
    /\ UNCHANGED <<HAS_TQDM, call, impl, files, all_rows, printed, collected, csv, pos,
                   buffer, lines, current_stats, results, game_idx, ret, history>>

\* lines 43-95: the file is read to its end, return [stats], None
RunAccurate(i) ==
    /\ pc[i] = "queued"
    /\ Return(i, ReturnRows(<<process_file_accurate(files[i].path, files[i].stream)>>))
    /\ UNCHANGED <<HAS_TQDM, call, impl, files, mainVars, history>>

\* lines 60-62 and 87-88: gzip.open or the iteration raises
FailAccurate(i) ==
    /\ pc[i] = "queued"
    /\ Return(i, ReturnError(files[i].path, "read"))
    /\ UNCHANGED <<HAS_TQDM, call, impl, files, mainVars, history>>

\* lines 124-135, one turn of "for result, err in iterator". Without tqdm and with
\* len(all_rows) = 0, speed is 0.0 and line 134 divides by it: ZeroDivisionError
\* leaves main.
CollectTimer(i) ==
    /\ mainpc = "collect"
    /\ pc[i] = "done"
    /\ i \notin collected
    /\ collected' = collected \cup {i}
    /\ all_rows' = IF ret[i].data # <<>> THEN all_rows \o ret[i].data ELSE all_rows
    /\ printed' = IF ret[i].data = <<>> /\ ret[i].kind = "error" /\ ~HAS_TQDM
                  THEN Append(printed, [file |-> ret[i].file, cause |-> ret[i].cause])
                  ELSE printed
    /\ mainpc' = IF ~HAS_TQDM /\ Len(all_rows') % 5 = 0 /\ Len(all_rows') = 0
                 THEN "crashed" ELSE mainpc
    /\ UNCHANGED <<HAS_TQDM, call, impl, files, csv, pc, pos, buffer, lines,
                   current_stats, results, game_idx, ret, history>>

\* lines 138-144: the loop is over, the rows are written when there are any
WriteCsvTimer ==
    /\ mainpc = "collect"
    /\ collected = Workers
    /\ mainpc' = "done"
    /\ csv' = IF all_rows # <<>> THEN [written |-> TRUE, rows |-> all_rows] ELSE csv
    /\ UNCHANGED <<HAS_TQDM, call, impl, files, all_rows, printed, collected, pc, pos,
                   buffer, lines, current_stats, results, game_idx, ret, history>>

NextTimer ==
    \/ SubmitTimer
    \/ \E i \in Workers : RunAccurate(i)
    \/ \E i \in Workers : FailAccurate(i)
    \/ \E i \in Workers : CollectTimer(i)
    \/ WriteCsvTimer

SpecTimer == InitTimer /\ [][NextTimer]_vars

(* C11: every file whose processing failed and whose result main has taken is
   reported by a printed line naming that file, with and without the progress
   bar. *)
C11_FailuresReported ==
    \A i \in collected :
        ret[i].kind = "error" =>
            \E k \in 1..Len(printed) : printed[k].file = Basename(files[i].path)


\* the orders in which the files of S can have been taken by main
Orders(S) ==
    {o \in [1..Cardinality(S) -> S] : \A j, k \in 1..Cardinality(S) : o[j] = o[k] => j = k}

\* the rows the calls returned, file after file in the order o, from the k-th on
RECURSIVE MergedFrom(_, _)
MergedFrom(o, k) ==
    IF k > Len(o) THEN <<>> ELSE ret[o[k]].data \o MergedFrom(o, k + 1)

(* C12: workers share nothing. Whatever the other workers do and in whatever
   order the files complete, the rows a call returns are the rows of its own
   stream, and all_rows is the rows of the files taken so far, each file's rows
   together and in increasing record-index order, in some order of the files. *)
C12_WorkersIsolated ==
    /\ \A i \in Workers :
          Returned(i) => ret[i].data = RowsOfStream(files[i].path, files[i].stream)
    /\ \E o \in Orders(collected) : all_rows = MergedFrom(o, 1)
    /\ \A k \in 1..(Len(all_rows) - 1) :
          all_rows[k].file = all_rows[k + 1].file =>
              all_rows[k + 1].game_idx = all_rows[k].game_idx + 1

\* the second file completed first: its two rows come before the two of the first
C12_Witness ==
    /\ mainpc = "done"
    /\ Len(files) = 2
    /\ Len(all_rows) = 4
    /\ all_rows[1].file = Basename(files[2].path)
    /\ all_rows[2].file = Basename(files[2].path)
    /\ all_rows[3].file = Basename(files[1].path)
    /\ all_rows[3].game_idx = 0
    /\ all_rows[4].game_idx = 1


(* ----------------- functions called on their own inputs ---------------- *)
\* no script runs: a function is called on arguments taken from a bounded set
InitCall(c) == InitState(<<>>, "optim_isal", TRUE, c)

\* every byte sequence over alphabet of at most n bytes
Words(alphabet, n) == UNION {[1..k -> alphabet] : k \in 0..n}

(* ------------------------- bytes.count, lines 72-76 -------------------- *)
\* b'"Hero' and b'Die"': P_DEATH cut in two
HERO_HEAD == <<34, 72, 101, 114, 111>>
HERO_TAIL == <<68, 105, 101, 34>>

CountWindows == Words({97, 98}, MaxWindow) \cup {HERO_HEAD, HERO_TAIL, P_DEATH}
CountNeedles == {<<97>>, <<97, 97>>, <<97, 98>>, P_DEATH}

InitCount ==
    \E needle \in CountNeedles : \E a, b \in CountWindows :
        InitCall([op |-> "count", needle |-> needle, a |-> a, b |-> b, done |-> FALSE,
                  whole |-> 0, left |-> 0, right |-> 0])

\* (a + b).count(needle), a.count(needle) and b.count(needle)
CountCalls ==
    /\ call.op = "count"
    /\ ~call.done
    /\ call' = [call EXCEPT !.done = TRUE,
                            !.whole = Count(call.a \o call.b, call.needle),
                            !.left = Count(call.a, call.needle),
                            !.right = Count(call.b, call.needle)]
    /\ UNCHANGED runVars

NextCount == CountCalls

SpecCount == InitCount /\ [][NextCount]_vars

\* an occurrence of needle in a + b starts in a and ends in b
Straddles(a, b, needle) ==
    \E i \in 0..(Len(a) - 1) :
        i + Len(needle) > Len(a) /\ MatchAt(a \o b, needle, i)

(* C14 as stated: for any needle and any two windows a and b, the count of the
   needle in a + b is the count in a plus the count in b. *)
C14_CountAdditive ==
    (call.op = "count" /\ call.done) => call.whole = call.left + call.right

(* C14 as amended: the count in a + b is the count in a plus the count in b
   whenever no occurrence of the needle straddles the boundary, and it is never
   less than that sum nor more than one above it. *)
C14_CountAdditiveUnlessStraddled ==
    (call.op = "count" /\ call.done) =>
        /\ call.left + call.right <= call.whole
        /\ call.whole <= call.left + call.right + 1
        /\ ~Straddles(call.a, call.b, call.needle) => call.whole = call.left + call.right

\* two windows with one occurrence each and none across the boundary
C14_Witness ==
    /\ call.op = "count"
    /\ call.done
    /\ call.needle = <<97, 98>>
    /\ call.a = <<97, 98, 98>>
    /\ call.b = <<98, 97, 98>>
    /\ ~Straddles(call.a, call.b, call.needle)
    /\ call.left = 1
    /\ call.right = 1
    /\ call.whole = 2


(* ------------- the bounds of the forward extractors, lines 52-94 -------- *)
\* data of the digit 7, dots and the byte x, which is neither
FloatData == Words({55, DOT, 120}, MaxData)

\* n times the byte b
Repeat(b, n) == [i \in 1..n |-> b]

\* extract_float_after on data from start with a bound max_len, and a record
\* holding one "champion":" followed by a name of n bytes A and its closing quote
InitBound ==
    \/ \E data \in FloatData : \E start \in 0..1 : \E max_len \in 1..(MaxData - 1) :
          InitCall([op |-> "float", data |-> data, start |-> start, max_len |-> max_len,
                    done |-> FALSE, out |-> NoFloat, cut |-> NoFloat])
    \/ \E n \in 0..(CHAMP_CAP + 1) :
          InitCall([op |-> "champs", n |-> n,
                    chunk |-> P_CHAMP_PRE \o Repeat(65, n) \o <<QUOTE>>,
                    done |-> FALSE, out |-> {}])

\* extract_float_after(data, start, max_len) on data and on data[:start + max_len]
FloatCalls ==
    /\ call.op = "float"
    /\ ~call.done
    /\ call' = [call EXCEPT
                  !.done = TRUE,
                  !.out = extract_float_after(call.data, call.start, call.max_len),
                  !.cut = extract_float_after(Slice(call.data, 0, call.start + call.max_len),
                                              call.start, call.max_len)]
    /\ UNCHANGED runVars

\* lines 79-87 on the record
ChampsCall ==
    /\ call.op = "champs"
    /\ ~call.done
    /\ call' = [call EXCEPT !.done = TRUE, !.out = ScanChamps(call.chunk)]
    /\ UNCHANGED runVars

NextBound == FloatCalls \/ ChampsCall

SpecBound == InitBound /\ [][NextBound]_vars

\* the bytes of data extract_float_after may look at: data[start : start + max_len]
InBound(data, start, max_len) == Slice(data, start, start + max_len)

IsNumeric(b) == b \in DIGITS \cup {DOT}
IsDigit(b) == b \in DIGITS

(* C15: the forward extractors never look past their bound. What
   extract_float_after(data, start, max_len) gives does not depend on the bytes at
   start + max_len or beyond: it gives nothing when no byte within the bound is
   numeric, whatever number follows, and it gives the number when the bytes
   within the bound are its digits. A champion name is taken when its closing
   quote is at offset 1..29 and rejected when it is at 30 or beyond. *)
C15_ExtractorsBounded ==
    /\ (call.op = "float" /\ call.done) =>
          LET within == InBound(call.data, call.start, call.max_len)
          IN /\ call.out = call.cut
             /\ SelectSeq(within, IsNumeric) = <<>> => call.out = NoFloat
             /\ (within # <<>> /\ SelectSeq(within, IsDigit) = within) =>
                   call.out = ParseFloat(within)
    /\ (call.op = "champs" /\ call.done) =>
          call.out = IF 0 < call.n /\ call.n < CHAMP_CAP
                     THEN {Repeat(65, call.n)} ELSE {}

\* a digit right past the bound: nothing is returned
C15_Witness ==
    /\ call.op = "float"
    /\ call.done
    /\ call.data = <<120, 120, 120, 55>>
    /\ call.start = 0
    /\ call.max_len = 3
    /\ call.out = NoFloat


(* -------- one record observed and finalized: lines 69-147, 145-227 ------ *)
\* the record of the worked example of the spec
RECORD_C16 == <<123,34,101,118,101,110,116,115,34,58,91,123,34,67,114,101,97,116,101,72,101,114,111,34,58,123,34,110,101,116,95,105,100,34,58,49,48,55,51,55,52,49,56,50,52,44,34,99,104,97,109,112,105,111,110,34,58,34,65,104,114,105,34,125,125,44,123,34,72,101,114,111,68,105,101,34,58,123,34,116,105,109,101,34,58,49,50,53,46,53,125,125,93,125>>  \* {"events":[{"CreateHero":{"net_id":1073741824,"champion":"Ahri"}},{"HeroDie":{"time":125.5}}]}
F_HERO_DIE_BARE == <<72,101,114,111,68,105,101>>  \* HeroDie
F_TIME_VALUE == <<34,116,105,109,101,34,58,50,46,53>>  \* "time":2.5
F_CHAMPION_KEY == <<34,99,104,97,109,112,105,111,110,34,58>>  \* "champion":
F_NET_ID_7 == <<34,110,101,116,95,105,100,34,58,55>>  \* "net_id":7
AHRI == <<65,104,114,105>>  \* Ahri
MAPPING_C16 == <<49,48,55,51,55,52,49,56,50,52,58,65,104,114,105>>  \* 1073741824:Ahri

\* pieces of records: markers, markers short of a byte, values
RowFragments ==
    {BODY_X, <<SPACE>>, P_DEATH, F_HERO_DIE_BARE, F_TIME_VALUE, K_TIME, F_CHAMPION_KEY,
     BODY_CHAMP, F_NET_ID_7, P_CREATE_HERO, P_SPELL}

\* every concatenation of at most n of the fragments
RECURSIVE Concats(_, _)
Concats(fragments, n) ==
    IF n = 0 THEN {<<>>}
    ELSE Concats(fragments, n - 1)
         \cup {r \o f : r \in Concats(fragments, n - 1), f \in fragments}

RowRecords == Concats(RowFragments, MaxFragments) \cup {RECORD_C16}

\* a fresh GameStats observes one record and is finalized, in either script
InitRow ==
    \E record \in RowRecords : \E im \in {"optim_isal", "new_isal"} :
        InitState(<<>>, im, TRUE,
                  [op |-> "row", record |-> record, step |-> "new",
                   stats |-> IF im = "new_isal" THEN new_game_stats_re ELSE new_game_stats,
                   row |-> <<>>])

\* process_game_chunk(record, current_stats)
ObserveCall ==
    /\ call.op = "row"
    /\ call.step = "new"
    /\ ~Raises(call.record)
    /\ call' = [call EXCEPT !.step = "observed", !.stats = Observed(call.record, call.stats)]
    /\ UNCHANGED runVars

\* finalize_stats(current_stats, filename, patch, 0)
FinalizeCall ==
    /\ call.op = "row"
    /\ call.step = "observed"
    /\ call' = [call EXCEPT !.step = "row", !.row = Finalized(call.stats, Paths[1], 0)]
    /\ UNCHANGED runVars

NextRow == ObserveCall \/ FinalizeCall

SpecRow == InitRow /\ [][NextRow]_vars

(* C16: observing and finalizing the record
   {"events":[{"CreateHero":{"net_id":1073741824,"champion":"Ahri"}},{"HeroDie":{"time":125.5}}]}
   gives a row with deaths = 1, n_champs = 1, champs = "Ahri",
   hero_net_ids = "1073741824:Ahri" and duration_sec = 125.5 (1255 tenths). *)
C16_WorkedExample ==
    (call.op = "row" /\ call.step = "row" /\ call.record = RECORD_C16) =>
        /\ call.row.deaths = 1
        /\ call.row.n_champs = 1
        /\ call.row.champs = AHRI
        /\ call.row.hero_net_ids = MAPPING_C16
        /\ call.row.duration_sec = 1255

\* optim_isal has finalized the record of the example
C16_Witness ==
    /\ impl = "optim_isal"
    /\ call.op = "row"
    /\ call.step = "row"
    /\ call.record = RECORD_C16
    /\ call.row.n_heroes = 1
    /\ call.row.size_mb = 0

\* the markers process_game_chunk of optim_isal looks for in a record
Markers ==
    {P_DEATH, P_SPELL, P_ATTACK, P_DAMAGE, P_ITEM, P_CHAMP_PRE, P_TIME, P_CREATE_HERO}
HasMarker(record) == \E marker \in Markers : Contains(record, marker)

(* C17: in optim_isal a non-blank record holding none of the markers gives a row
   with every event counter zero, no champion (n_champs = 0, champs empty), an
   empty entity mapping and duration_sec = 0.0. *)
C17_NoMarkerZeroRow ==
    (/\ impl = "optim_isal"
     /\ call.op = "row"
     /\ call.step = "row"
     /\ Strip(call.record) # <<>>
     /\ ~HasMarker(call.record)) =>
        /\ call.row.deaths = 0
        /\ call.row.spells = 0
        /\ call.row.attacks = 0
        /\ call.row.damage = 0
        /\ call.row.items = 0
        /\ call.row.n_champs = 0
        /\ call.row.champs = <<>>
        /\ call.row.hero_net_ids = <<>>
        /\ call.row.n_heroes = 0
        /\ call.row.duration_sec = 0
        /\ call.row.duration_min = 0

\* a record of near misses: "time" without its colon, then "net_id":7
C17_Witness ==
    /\ impl = "optim_isal"
    /\ call.op = "row"
    /\ call.step = "row"
    /\ call.record = K_TIME \o F_NET_ID_7
    /\ ~HasMarker(call.record)
    /\ call.row.deaths = 0
    /\ call.row.duration_sec = 0


(* --------------------- the patch label, lines 152-157 ------------------ *)
UNDERSCORE == 95
\* path segments: 12_2, 13_22, 14_3, 15_1 and a
PathSegments ==
    {<<49,50,95,50>>, <<49,51,95,50,50>>, <<49,52,95,51>>, <<49,53,95,49>>, <<97>>}

\* every path of at most MaxSegments segments, joined by "/" or by "\"
PatchPaths ==
    {Join(<<sep>>, segs) : sep \in {SLASH, BACKSLASH},
                           segs \in UNION {[1..k -> PathSegments] : k \in 1..MaxSegments}}

InitPatch ==
    \E path \in PatchPaths :
        InitCall([op |-> "patch", path |-> path, done |-> FALSE, out |-> <<>>])

\* lines 152-157 on the path
PatchCall ==
    /\ call.op = "patch"
    /\ ~call.done
    /\ call' = [call EXCEPT !.done = TRUE, !.out = PatchOf(call.path)]
    /\ UNCHANGED runVars

NextPatch == PatchCall

SpecPatch == InitPatch /\ [][NextPatch]_vars

\* the naming convention <NN>_<NN>: one or two digits, an underscore, one or two digits
IsPatchName(seg) ==
    LET u == Find(seg, <<UNDERSCORE>>, 0)
    IN /\ u \in 1..2
       /\ Len(seg) - u - 1 \in 1..2
       /\ \A k \in 1..Len(seg) : k # u + 1 => seg[k] \in DIGITS

\* the first segment of parts, from the k-th on, that follows the convention
RECURSIVE FirstPatchName(_, _)
FirstPatchName(parts, k) ==
    IF k > Len(parts) THEN UNKNOWN
    ELSE IF IsPatchName(parts[k]) THEN parts[k]
    ELSE FirstPatchName(parts, k + 1)

(* C18: the patch label of a path is its first segment that follows the naming
   convention <NN>_<NN>, and "unknown" exactly when no segment follows it. *)
C18_PatchByConvention ==
    (call.op = "patch" /\ call.done) =>
        LET parts == Split(ReplaceBackslash(call.path), <<SLASH>>)
        IN /\ call.out = FirstPatchName(parts, 1)
           /\ call.out = UNKNOWN <=> \A k \in 1..Len(parts) : ~IsPatchName(parts[k])


(* ----------------- the run extract_float_after collects ---------------- *)
\* the longest prefix of s, from its k-th byte on, made of digits and at most
\* one decimal point
RECURSIVE NumberRun(_, _, _)
NumberRun(s, k, dotSeen) ==
    IF k > Len(s) THEN <<>>
    ELSE IF s[k] \in DIGITS THEN <<s[k]>> \o NumberRun(s, k + 1, dotSeen)
    ELSE IF s[k] = DOT /\ ~dotSeen THEN <<DOT>> \o NumberRun(s, k + 1, TRUE)
    ELSE <<>>

(* C19: extract_float_after collects the run of digits and at most one decimal
   point that starts right at the given position and stops at the first byte
   outside [0-9.]; it gives the value of that run, and nothing when the run holds
   no digit, also when a number follows further on. *)
C19_RunStartsAtPosition ==
    (call.op = "float" /\ call.done) =>
        LET run == NumberRun(InBound(call.data, call.start, call.max_len), 1, FALSE)
        IN call.out = IF SelectSeq(run, IsDigit) = <<>> THEN NoFloat ELSE ParseFloat(run)

(* ------------- the duration of a record, the two ways: 89-94, 180-187 --- *)
F_TIME_7 == <<34,116,105,109,101,34,58,55>>  \* "time":7
F_TIME_NULL == <<34,116,105,109,101,34,58,110,117,108,108>>  \* "time":null
F_TIME_SPACED == <<34,116,105,109,101,34,32,58,57>>  \* "time" :9
F_THREE == <<51>>  \* 3
F_OTHER_9 == <<44,34,120,34,58,57>>  \* ,"x":9

TimeFragments ==
    {F_TIME_7, F_TIME_VALUE, F_TIME_NULL, F_TIME_SPACED, P_TIME, F_THREE, F_OTHER_9, BODY_X}

\* the maximum before the record is observed, in the model 0.0 or 5.0
TimeMaxima == {ZeroFloat, [n |-> 5, d |-> 1]}

InitTime ==
    \E record \in Concats(TimeFragments, MaxFragments) : \E m \in TimeMaxima :
        InitCall([op |-> "time", record |-> record, max_time |-> m, done |-> FALSE,
                  last |-> ZeroFloat, max |-> ZeroFloat])

\* max_time after the record: optim_isal lines 90-94 and new_isal lines 181-187
TimeCalls ==
    /\ call.op = "time"
    /\ ~call.done
    /\ call' = [call EXCEPT !.done = TRUE,
                            !.last = ScanTime(call.record, call.max_time),
                            !.max = ScanTimeRe(call.record, call.max_time)]
    /\ UNCHANGED runVars

NextTime == TimeCalls

SpecTime == InitTime /\ [][NextTime]_vars

\* the time values of a record in byte order: the floats RE_TIME finds, from
\* offset i on
RECURSIVE TimeValues(_, _)
TimeValues(record, i) ==
    IF i >= Len(record) THEN <<>>
    ELSE LET group == NumberAt(record, K_TIME, i, DIGITS \cup {DOT})
             t == ParseFloat(group)
         IN (IF group # <<>> /\ t.ok THEN <<[n |-> t.n, d |-> t.d]>> ELSE <<>>)
            \o TimeValues(record, i + 1)

NonDecreasing(values) ==
    \A k \in 1..(Len(values) - 1) : ~FloatGt(values[k], values[k + 1])

(* C20: for a record whose time values do not decrease in byte order, the
   duration taken from the last "time": marker (optim_isal) equals the maximum
   over all the time values (new_isal), and neither is below the maximum the
   GameStats held before. *)
C20_LastIsMaximum ==
    (call.op = "time" /\ call.done /\ NonDecreasing(TimeValues(call.record, 0))) =>
        /\ call.last = call.max
        /\ ~FloatGt(call.max_time, call.last)
        /\ ~FloatGt(call.max_time, call.max)

(* ------- the blocks after "CreateHero": optim 96-124, new_isal 66-93 ---- *)
MaxFields == 3

F_NET_ID_NULL == <<34,110,101,116,95,105,100,34,58,110,117,108,108>>  \* "net_id":null
F_NET_ID_SPACED == <<34,110,101,116,95,105,100,34,58,49,32,50>>  \* "net_id":1 2
F_SKIN_FOX == <<34,115,107,105,110,95,110,97,109,101,34,58,34,70,111,120,34>>  \* "skin_name":"Fox"
\* "champion":"AAAAAAAAAAAAAAAAAAAAAAAAAAAAAA", a name of CHAMP_CAP bytes
F_CHAMP_LONG == P_CHAMP_PRE \o Repeat(65, CHAMP_CAP) \o <<QUOTE>>

\* what follows a "CreateHero" marker: ids, names, and a further marker
HeroFields ==
    {F_NET_ID_7, F_NET_ID_NULL, F_NET_ID_SPACED, BODY_CHAMP, F_SKIN_FOX, F_CHAMP_LONG,
     P_CREATE_HERO}

HeroRecords == {P_CREATE_HERO \o r : r \in Concats(HeroFields, MaxFields)}

\* a fresh GameStats observes a record of hero blocks and is finalized
InitHero ==
    \E record \in HeroRecords : \E im \in {"optim_isal", "new_isal"} :
        InitState(<<>>, im, TRUE,
                  [op |-> "row", record |-> record, step |-> "new",
                   stats |-> IF im = "new_isal" THEN new_game_stats_re ELSE new_game_stats,
                   row |-> <<>>])

SpecHero == InitHero /\ [][NextRow]_vars

\* the record of the call has been observed
HeroesObserved == call.op = "row" /\ call.step # "new"

(* C21: a hero-creation block in which no name (neither champion nor skin
   name) or no entity id can be found adds no entry to the mapping, so every
   entry of hero_net_ids has a name that was extracted: no entry has the empty
   name. *)
C21_MissAddsNoEntry ==
    HeroesObserved =>
        \A id \in DOMAIN call.stats.hero_net_ids : call.stats.hero_net_ids[id] # <<>>

\* the blocks of a record: what follows each "CreateHero", up to the next one
HeroBlocks(record) == Split(record, P_CREATE_HERO)

(* C22: in a record with one hero-creation marker whose block holds an entity
   id, the id is paired with the champion field when the block has one, and
   with the skin_name field when it has no champion field. *)
C22_ChampionElseSkin ==
    (HeroesObserved /\ Len(HeroBlocks(call.record)) = 2) =>
        LET block == HeroBlocks(call.record)[2]
            id == SearchNetId(block)
            champ == SearchQuoted(block, K_CHAMPION)
            skin == SearchQuoted(block, K_SKIN_NAME)
        IN (id # <<>> /\ (champ # <<>> \/ skin # <<>>)) =>
               /\ id \in DOMAIN call.stats.hero_net_ids
               /\ call.stats.hero_net_ids[id] = IF champ # <<>> THEN champ ELSE skin

(* C27: every key of hero_net_ids is a non-empty string of decimal digits,
   whatever bytes follow the net_id marker. *)
C27_KeysAreDigits ==
    HeroesObserved =>
        \A id \in DOMAIN call.stats.hero_net_ids :
            id # <<>> /\ \A j \in 1..Len(id) : id[j] \in DIGITS

(* C28: in optim_isal every champion name that is a value of hero_net_ids is
   also in champs. *)
C28_MappedNamesListed ==
    (HeroesObserved /\ impl = "optim_isal") =>
        \A id \in DOMAIN call.stats.hero_net_ids :
            call.stats.hero_net_ids[id] \in call.stats.champs

(* ------------- the champion scan: optim_isal 78-87, isal 56-64 ---------- *)
MaxNames == 3

ZED == <<90,101,100>>  \* Zed
\* what follows a "champion":" marker: names with their closing quote (one of
\* two bytes for one character, one of CHAMP_CAP - 1 and one of CHAMP_CAP bytes,
\* an empty one, one that is no UTF-8), and a name without closing quote
NameValues ==
    {AHRI \o <<QUOTE>>, ZED \o <<QUOTE>>, <<195, 169, QUOTE>>,
     Repeat(65, CHAMP_CAP - 1) \o <<QUOTE>>, Repeat(65, CHAMP_CAP) \o <<QUOTE>>,
     <<QUOTE>>, <<255, QUOTE>>, AHRI}

ChampRecords == Concats({P_CHAMP_PRE \o v : v \in NameValues}, MaxNames)

\* a fresh GameStats of optim_isal observes a record of champion fields
InitChamps ==
    \E record \in ChampRecords :
        InitState(<<>>, "optim_isal", TRUE,
                  [op |-> "row", record |-> record, step |-> "new",
                   stats |-> new_game_stats, row |-> <<>>])

SpecChamps == InitChamps /\ [][NextRow]_vars

\* the offsets of the occurrences of the champion-name marker in a record
Occurrences(record) == {i \in 0..(Len(record) - 1) : MatchAt(record, P_CHAMP_PRE, i)}

\* what follows the occurrence at offset i, up to the next occurrence
ValueAfter(record, i) ==
    LET later == {j \in Occurrences(record) : j > i}
    IN Slice(record, i + Len(P_CHAMP_PRE), IF later = {} THEN Len(record) ELSE Lowest(later))

\* the offset of the closing quote in what follows the occurrence, or -1
ClosingQuote(record, i) == Find(ValueAfter(record, i), <<QUOTE>>, 0)

NameAfter(record, i) == Slice(ValueAfter(record, i), 0, ClosingQuote(record, i))

InCap(record, i) == 0 < ClosingQuote(record, i) /\ ClosingQuote(record, i) < CHAMP_CAP

(* C23 as stated: every occurrence of the champion-name marker is examined,
   and the name after an occurrence is in the champion set if and only if its
   closing quote is at offset 1 to 29. *)
C23_NameAddedIffQuoteInCap ==
    HeroesObserved =>
        call.stats.champs
            = {NameAfter(call.record, i) :
                   i \in {j \in Occurrences(call.record) : InCap(call.record, j)}}

(* C23, amended: every occurrence of the champion-name marker is examined, and
   the name after an occurrence is in the champion set if and only if its
   closing quote is at offset 1 to 29 and its bytes decode as UTF-8; so every
   name in the set has 1 to 29 bytes, and an unterminated, an over-long and an
   undecodable value are rejected. *)
C23_NameAddedIffQuoteInCapAndDecodes ==
    HeroesObserved =>
        /\ call.stats.champs
               = {NameAfter(call.record, i) :
                      i \in {j \in Occurrences(call.record) :
                                 InCap(call.record, j) /\ IsUtf8(NameAfter(call.record, j))}}
        /\ \A name \in call.stats.champs : Len(name) \in 1..(CHAMP_CAP - 1)

\* a record with three occurrences: a name is added after the first, the one
\* after the second is over-long, and another name is added after the third
C23_Witness ==
    /\ HeroesObserved
    /\ Cardinality(Occurrences(call.record)) = 3
    /\ Cardinality(call.stats.champs) = 2
    /\ InCap(call.record, 0)
    /\ \E i \in Occurrences(call.record) :
           /\ ClosingQuote(call.record, i) = CHAMP_CAP
           /\ \E j \in Occurrences(call.record) : j > i /\ InCap(call.record, j)

(* ---------- extract_replication_field, its loop step by step: 113-143 --- *)
MaxTails == 1

KEY_9 == <<34,49,48,48,48,48,48,48,48,49,34,58>>  \* "100000001":
KEY_12 == <<34,49,48,48,48,48,48,48,48,48,48,48,50,34,32,58>>  \* "100000000002" :
KEY_8 == <<34,49,48,48,48,48,48,48,56,34,58>>  \* "10000008":
KEY_13 == <<34,49,48,48,48,48,48,48,48,48,48,48,48,51,34,58>>  \* "1000000000003":
F_FLOAT_25 == <<34,70,108,111,97,116,34,58,50,46,53>>  \* "Float":2.5
F_FLOAT_NULL == <<34,70,108,111,97,116,34,58,110,117,108,108>>  \* "Float":null
F_FLOAT_7 == <<34,70,108,111,97,116,34,58,55>>  \* "Float":7

\* quoted keys of 9 and 12 digits, of 8 and 13 digits, and no key
KeyTokens == {<<>>, KEY_9, KEY_12, KEY_8, KEY_13}
\* the filler between the first key and the second
FarPads == {0, KEY_WINDOW}
\* the filler between the second key and the field: the key of 9 digits just
\* fits the window before the field, or is one byte short of it
NearPads == {0, KEY_WINDOW - Len(KEY_9), KEY_WINDOW - Len(KEY_9) + 1}
\* the filler between the field and its value: the value just fits the window
\* after the field, or none of its digits does
ValuePads ==
    {0, VALUE_WINDOW - Len(P_GOLD_ON_DEATH) - Len(F_FLOAT_25),
     VALUE_WINDOW - Len(P_GOLD_ON_DEATH) - Len(F_FLOAT_25) + 3}
ValueTokens == {<<>>, F_FLOAT_25, F_FLOAT_NULL}

\* n further occurrences of the field, each with a value right after it
RECURSIVE Tails(_)
Tails(n) == IF n = 0 THEN <<>> ELSE P_GOLD_ON_DEATH \o F_FLOAT_7 \o Tails(n - 1)

ReplicationRecords ==
    {k1 \o Repeat(120, a) \o k2 \o Repeat(120, b) \o P_GOLD_ON_DEATH \o Repeat(120, c)
        \o v \o Tails(t) :
     k1 \in {<<>>, KEY_9, KEY_13}, a \in FarPads, k2 \in KeyTokens, b \in NearPads, c \in ValuePads,
     v \in ValueTokens, t \in 0..MaxTails}

\* lines 113-114: results = [], pos = 0; prev is the pos of the iteration before
InitReplication ==
    \E chunk \in ReplicationRecords :
        InitCall([op |-> "replication", chunk |-> chunk, field_pattern |-> P_GOLD_ON_DEATH,
                  pos |-> 0, prev |-> -1, iterations |-> 0, results |-> <<>>,
                  done |-> FALSE])

\* lines 118-120: chunk.find finds nothing from pos on, break
ReplicationBreak ==
    /\ call.op = "replication"
    /\ ~call.done
    /\ Find(call.chunk, call.field_pattern, call.pos) = -1
    /\ call' = [call EXCEPT !.done = TRUE]
    /\ UNCHANGED runVars

\* lines 118-141: one iteration on the occurrence chunk.find finds
ReplicationStep ==
    /\ call.op = "replication"
    /\ ~call.done
    /\ LET idx == Find(call.chunk, call.field_pattern, call.pos)
       IN /\ idx # -1
          /\ call' = [call EXCEPT !.results = @ \o ObservationAt(call.chunk, idx),
                                  !.prev = call.pos,
                                  !.pos = NextPos(idx, call.field_pattern),
                                  !.iterations = @ + 1]
    /\ UNCHANGED runVars

NextReplication == ReplicationStep \/ ReplicationBreak

SpecReplication == InitReplication /\ [][NextReplication]_vars

\* "(\d{9,12})"\s*: matches at offset i with n digits and m white bytes, and
\* ends at offset i + n + m + 3
KeyMatches(record, i, n, m) ==
    /\ i + n + m + 3 <= Len(record)
    /\ \A j \in 1..n : record[i + 1 + j] \in DIGITS
    /\ record[i + n + 2] = QUOTE
    /\ \A j \in 1..m : record[i + n + 2 + j] \in WHITESPACE
    /\ record[i + n + m + 3] = COLON

\* the offsets of the keys that lie, colon included, within the KEY_WINDOW
\* bytes before offset idx
KeysBefore(record, idx) ==
    {i \in Max(0, idx - KEY_WINDOW)..(idx - 1) :
        /\ record[i + 1] = QUOTE
        /\ \E n \in KEY_MIN_DIGITS..KEY_MAX_DIGITS :
               /\ i + n + 2 <= idx
               /\ record[i + n + 2] = QUOTE
               /\ \E m \in 0..(idx - i - n - 3) : KeyMatches(record, i, n, m)}

\* the digits of the key at offset i
KeyDigits(record, i) == Slice(record, i + 1, Find(record, <<QUOTE>>, i + 1))

\* the Float value within the VALUE_WINDOW bytes from offset idx
FloatWithin(record, idx) ==
    LET w == Slice(record, idx, idx + VALUE_WINDOW)
        hits == {i \in 0..(Len(w) - 1) : NumberAt(w, K_FLOAT, i, DIGITS \cup {DOT}) # <<>>}
    IN IF hits = {} THEN NoFloat
       ELSE ParseFloat(NumberAt(w, K_FLOAT, Lowest(hits), DIGITS \cup {DOT}))

\* the observations of the occurrences at the offsets occs, in byte order
RECURSIVE OwnedValues(_, _)
OwnedValues(record, occs) ==
    IF occs = {} THEN <<>>
    ELSE LET idx == Lowest(occs)
             keys == KeysBefore(record, idx)
             v == FloatWithin(record, idx)
         IN (IF keys # {} /\ v.ok
             THEN <<[net_id |-> KeyDigits(record, CHOOSE i \in keys : \A j \in keys : j <= i),
                     value |-> [n |-> v.n, d |-> v.d]]>>
             ELSE <<>>)
            \o OwnedValues(record, occs \ {idx})

FieldOccurrences(record, field_pattern) ==
    {i \in 0..(Len(record) - 1) : MatchAt(record, field_pattern, i)}

(* C24: extract_replication_field pairs each occurrence of the field marker
   with the closest preceding quoted key of 9 to 12 digits followed by a
   colon that lies within the 300 bytes before the marker, and records nothing
   for an occurrence with no such key in the window or with no Float value
   within 100 bytes from the marker. *)
C24_ClosestKeyOwns ==
    (call.op = "replication" /\ call.done) =>
        /\ call.results
               = OwnedValues(call.chunk, FieldOccurrences(call.chunk, call.field_pattern))
        /\ call.results = extract_replication_field(call.chunk, call.field_pattern)

\* two keys lie in the window before the first occurrence, a key of 9 digits
\* and after it one of 12, and the occurrence is recorded under the second
C24_Witness ==
    /\ call.op = "replication" /\ call.done
    /\ LET idx == Find(call.chunk, call.field_pattern, 0)
       IN /\ Cardinality(KeysBefore(call.chunk, idx)) = 2
          /\ MatchAt(call.chunk, KEY_9, 0)
          /\ Len(call.results) = 2
          /\ call.results[1].net_id = SubSeq(KEY_12, 2, 13)
          /\ call.results[2].net_id = SubSeq(KEY_12, 2, 13)

(* C29: the loop of extract_replication_field ends on every record: its search
   position strictly increases at each iteration and stays within the record,
   it runs once per occurrence of the field marker and records at most one
   observation per iteration, in byte order, so n_gold_death_events is at most
   the number of occurrences of the marker. *)
C29_LoopAdvances ==
    call.op = "replication" =>
        /\ call.pos > call.prev
        /\ call.pos <= Len(call.chunk)
        /\ call.iterations <= Count(call.chunk, call.field_pattern)
        /\ Len(call.results) <= call.iterations
        /\ call.done =>
               /\ call.iterations = Count(call.chunk, call.field_pattern)
               /\ LET stats == process_game_chunk_re(call.chunk, new_game_stats_re)
                      row == finalize_stats_re(stats, <<>>, UNKNOWN, 0)
                  IN /\ stats.gold_on_death_events = call.results
                     /\ row.n_gold_death_events <= Count(call.chunk, call.field_pattern)

\* the loop has ended after two iterations, of which one recorded nothing
C29_Witness ==
    /\ call.op = "replication" /\ call.done
    /\ call.iterations = 2
    /\ Len(call.results) = 1

(* ------------- the empty chunk: optim_isal 167-187, isal 103-133 -------- *)
\* the step of worker i on which f.read returned the empty chunk: the call was
\* reading, and it read no byte and raised nothing
EmptyRead(i) ==
    /\ pc[i] = "read"
    /\ pc'[i] # "read"
    /\ pos'[i] = pos[i]
    /\ ret'[i] = ret[i]

\* the empty chunk gives no Record of its own
NoRecordOf(i) ==
    /\ buffer'[i] = buffer[i]
    /\ results'[i] = results[i]
    /\ history'[i] = history[i]
    /\ game_idx'[i] = game_idx[i]

(* C25 as stated: an empty chunk delivered by the chunk source leaves the
   carry buffer unchanged and emits no row, and the call goes on with the
   chunks that follow: it is still in its read loop. *)
C25_EmptyChunkSkipped ==
    [][\A i \in Workers : EmptyRead(i) => (NoRecordOf(i) /\ pc'[i] \in {"read", "line"})]_vars

(* C25, amended: an empty chunk delivered by the chunk source is the end of
   the stream. The read that returns it leaves the carry buffer unchanged and
   emits no row, it comes only when every byte of the stream has been read, and
   it ends the read loop: no chunk is read after it, and the carry buffer goes
   to the test for the final Record. *)
C25_EmptyChunkEndsStream ==
    [][\A i \in Workers :
           /\ EmptyRead(i) =>
                  /\ NoRecordOf(i)
                  /\ pos[i] = Len(files[i].stream)
                  /\ pc'[i] = "tail"
           /\ pc[i] \in {"tail", "tail_finalize", "done"} =>
                  /\ history'[i].records = history[i].records
                  /\ pc'[i] \in {"tail", "tail_finalize", "done"}]_vars

\* the empty chunk came after a row was made, with bytes in the carry buffer
C25_Witness ==
    /\ pc[1] = "tail"
    /\ pos[1] = Len(files[1].stream)
    /\ buffer[1] # <<>>
    /\ results[1] # <<>>

(* --------------- the row of a GameStats: optim 126-147, new 189-227 ----- *)
MaxParts == 3

F_CHAMP_ZED == <<34,99,104,97,109,112,105,111,110,34,58,34,90,101,100,34>>  \* "champion":"Zed"
F_CHAMP_BARD == <<34,99,104,97,109,112,105,111,110,34,58,34,66,97,114,100,34>>  \* "champion":"Bard"
F_HERO_7_ZED == <<34,67,114,101,97,116,101,72,101,114,111,34,34,110,101,116,95,105,100,34,58,55,44,34,99,104,97,109,112,105,111,110,34,58,34,90,101,100,34>>  \* "CreateHero""net_id":7,"champion":"Zed"
F_HERO_10_AHRI == <<34,67,114,101,97,116,101,72,101,114,111,34,34,110,101,116,95,105,100,34,58,49,48,44,34,99,104,97,109,112,105,111,110,34,58,34,65,104,114,105,34>>  \* "CreateHero""net_id":10,"champion":"Ahri"
F_HERO_7_AHRI == <<34,67,114,101,97,116,101,72,101,114,111,34,34,110,101,116,95,105,100,34,58,55,44,34,99,104,97,109,112,105,111,110,34,58,34,65,104,114,105,34>>  \* "CreateHero""net_id":7,"champion":"Ahri"

\* the parts of a record: champion fields, hero blocks and a death event
SerialParts ==
    {BODY_CHAMP, F_CHAMP_ZED, F_CHAMP_BARD, F_HERO_7_ZED, F_HERO_10_AHRI, F_HERO_7_AHRI,
     P_DEATH}

\* the sequences of at most n elements of S
RECURSIVE SeqsUpTo(_, _)
SeqsUpTo(S, n) ==
    IF n = 0 THEN {<<>>}
    ELSE SeqsUpTo(S, n - 1) \cup {Append(q, x) : q \in SeqsUpTo(S, n - 1), x \in S}

\* the parts one after the other
RECURSIVE Flatten(_)
Flatten(parts) == IF parts = <<>> THEN <<>> ELSE Head(parts) \o Flatten(Tail(parts))

Reverse(parts) == [k \in 1..Len(parts) |-> parts[Len(parts) + 1 - k]]

\* a fresh GameStats observes the record made of the parts and is finalized
InitSerial ==
    \E parts \in SeqsUpTo(SerialParts, MaxParts) : \E im \in {"optim_isal", "new_isal"} :
        InitState(<<>>, im, TRUE,
                  [op |-> "row", parts |-> parts, record |-> Flatten(parts), step |-> "new",
                   stats |-> IF im = "new_isal" THEN new_game_stats_re ELSE new_game_stats,
                   row |-> <<>>])

SpecSerial == InitSerial /\ [][NextRow]_vars

\* the items of a '|'-joined string
Items(joined) == IF joined = <<>> THEN <<>> ELSE Split(joined, <<PIPE>>)

\* strictly ascending in the order of str
Ascending(items) == \A k \in 1..(Len(items) - 1) : LexLess(items[k], items[k + 1])

\* the id and the name of an id:name item
IdOf(item) == Slice(item, 0, Find(item, <<COLON>>, 0))
NameOf(item) == From(item, Find(item, <<COLON>>, 0) + 1)

(* C26: the champs and hero_net_ids strings of a row depend only on the set of
   names and on the id-to-name mapping, not on the order of encounter: champs is
   the names of the set, each once, joined with '|' in ascending order (the
   same string for the record with its parts in reverse order); hero_net_ids is
   the pairs of the mapping as id:name, each once, in ascending order of id
   (ids are str and compare as str, so "10" is before "7"); n_champs is the
   number of distinct names and n_heroes the number of distinct ids; deaths,
   spells, attacks, damage and items are copied unchanged. *)
C26_RowIsSortedProjection ==
    (call.op = "row" /\ call.step = "row" /\ "parts" \in DOMAIN call) =>
        LET stats == call.stats
            row == call.row
            names == Items(row.champs)
            pairs == Items(row.hero_net_ids)
            ids == [k \in 1..Len(pairs) |-> IdOf(pairs[k])]
        IN /\ Ascending(names)
           /\ {names[k] : k \in 1..Len(names)} = stats.champs
           /\ row.n_champs = Cardinality(stats.champs)
           /\ row.champs
                  = Finalized(Observed(Flatten(Reverse(call.parts)), NewStats), Paths[1], 0).champs
           /\ Ascending(ids)
           /\ {<<IdOf(pairs[k]), NameOf(pairs[k])>> : k \in 1..Len(pairs)}
                  = {<<id, stats.hero_net_ids[id]>> : id \in DOMAIN stats.hero_net_ids}
           /\ row.n_heroes = Cardinality(DOMAIN stats.hero_net_ids)
           /\ <<row.deaths, row.spells, row.attacks, row.damage, row.items>>
                  = <<stats.deaths, stats.spells, stats.attacks, stats.damage, stats.items>>

\* names and ids met out of order: Zed with id 7, then Bard, then Ahri with
\* id 10
C26_Witness ==
    /\ call.op = "row" /\ call.step = "row" /\ "parts" \in DOMAIN call
    /\ call.parts = <<F_HERO_7_ZED, F_CHAMP_BARD, F_HERO_10_AHRI>>
    /\ call.row.n_champs = 3
    /\ call.row.n_heroes = 2
    /\ Items(call.row.champs)[1] = AHRI
    /\ NameOf(Items(call.row.hero_net_ids)[2]) = ZED

(* ---- the byte scan and the full parse: optim 69-87, generate_metadata -- *)
MaxEvents == 2

\* a marker without its quotes: the event type it is the key of
Bare(marker) == SubSeq(marker, 2, Len(marker) - 1)

K_EVENTS == <<101,118,101,110,116,115>>  \* events
K_SPELL_NAME == <<115,112,101,108,108,95,110,97,109,101>>  \* spell_name

\* a field of an event: its key, the text of its value, and whether the value
\* is a string
StrField(key, value) == [key |-> key, value |-> value, quoted |-> TRUE]
NumField(key, value) == [key |-> key, value |-> value, quoted |-> FALSE]

\* events {EventType: {data}} as the parser gives them
Events ==
    {[type |-> F_HERO_DIE_BARE, fields |-> <<NumField(Bare(K_TIME), <<50, DOT, 53>>)>>],
     [type |-> Bare(P_SPELL), fields |-> <<StrField(K_SPELL_NAME, <<81>>)>>],
     [type |-> Bare(P_SPELL), fields |-> <<StrField(K_SPELL_NAME, F_HERO_DIE_BARE)>>],
     [type |-> Bare(P_ATTACK), fields |-> <<>>],
     [type |-> Bare(P_DAMAGE), fields |-> <<>>],
     [type |-> Bare(P_ITEM), fields |-> <<>>],
     [type |-> Bare(P_CREATE_HERO), fields |-> <<StrField(Bare(K_CHAMPION), AHRI)>>],
     [type |-> Bare(P_CREATE_HERO), fields |-> <<StrField(Bare(K_CHAMPION), ZED)>>]}

EventLists == SeqsUpTo(Events, MaxEvents)

\* json.dumps(..., separators=(',', ':')) and json.dumps(...)
Styles == {"compact", "spaced"}
Colon(style) == IF style = "compact" THEN <<COLON>> ELSE <<COLON, SPACE>>
Comma(style) == IF style = "compact" THEN <<44>> ELSE <<44, SPACE>>

Quoted(b) == <<QUOTE>> \o b \o <<QUOTE>>

\* the JSON text of an object of the members given as texts
ObjectText(members, style) == <<123>> \o Join(Comma(style), members) \o <<125>>

FieldText(f, style) ==
    Quoted(f.key) \o Colon(style) \o (IF f.quoted THEN Quoted(f.value) ELSE f.value)

EventText(e, style) ==
    ObjectText(<<Quoted(e.type) \o Colon(style)
                  \o ObjectText([k \in 1..Len(e.fields) |-> FieldText(e.fields[k], style)],
                                style)>>,
               style)

\* the well-formed events document of the events: {"events":[...]}
DocumentText(events, style) ==
    ObjectText(<<Quoted(K_EVENTS) \o Colon(style) \o <<91>>
                  \o Join(Comma(style), [k \in 1..Len(events) |-> EventText(events[k], style)])
                  \o <<93>>>>,
               style)

\* generate_metadata lines 139-140: json.loads(line).get('events', []), for a
\* line that is the document of some events in either style
json_loads_events(line) ==
    CHOOSE events \in EventLists : \E style \in Styles : DocumentText(events, style) = line

\* data.get(key): the value of the field, or <<>> when the event has none
FieldOf(e, key) ==
    LET ks == {k \in 1..Len(e.fields) : e.fields[k].key = key}
    IN IF ks = {} THEN <<>> ELSE e.fields[CHOOSE k \in ks : \A j \in ks : j <= k].value

\* generate_metadata lines 68-118: the counts of the event types and the
\* champions of the CreateHero events
extract_game_metadata(events) ==
    LET OfType(t) == Cardinality({k \in 1..Len(events) : events[k].type = t})
    IN [total_deaths |-> OfType(F_HERO_DIE_BARE),
        total_kills |-> OfType(F_HERO_DIE_BARE),
        total_spells_cast |-> OfType(Bare(P_SPELL)),
        total_basic_attacks |-> OfType(Bare(P_ATTACK)),
        total_items_bought |-> OfType(Bare(P_ITEM)),
        total_damage_events |-> OfType(Bare(P_DAMAGE)),
        champions |-> {FieldOf(events[k], Bare(K_CHAMPION)) :
                           k \in {j \in 1..Len(events) :
                                      /\ events[j].type = Bare(P_CREATE_HERO)
                                      /\ FieldOf(events[j], Bare(K_CHAMPION)) # <<>>}}]

NoMeta ==
    [total_deaths |-> 0, total_kills |-> 0, total_spells_cast |-> 0, total_basic_attacks |-> 0,
     total_items_bought |-> 0, total_damage_events |-> 0, champions |-> {}]

\* one record, a well-formed events document, is given to both paths
InitPaths ==
    \E events \in EventLists : \E style \in Styles :
        InitCall([op |-> "paths", record |-> DocumentText(events, style),
                  scanned |-> FALSE, fast |-> new_game_stats,
                  parsed |-> FALSE, meta |-> NoMeta])

\* optim_isal: process_game_chunk(record, new_game_stats())
FastPath ==
    /\ call.op = "paths"
    /\ ~call.scanned
    /\ call' = [call EXCEPT !.scanned = TRUE,
                            !.fast = process_game_chunk(call.record, new_game_stats)]
    /\ UNCHANGED runVars

\* generate_metadata: extract_game_metadata(json.loads(line).get('events', []))
FullParse ==
    /\ call.op = "paths"
    /\ ~call.parsed
    /\ call' = [call EXCEPT !.parsed = TRUE,
                            !.meta = extract_game_metadata(json_loads_events(call.record))]
    /\ UNCHANGED runVars

NextPaths == FastPath \/ FullParse

SpecPaths == InitPaths /\ [][NextPaths]_vars

(* C30: for a record that is a well-formed events document the counters of
   the byte scan agree with the full parse: deaths, spells, attacks, damage and
   items are the numbers of events of type HeroDie, CastSpellAns,
   BasicAttackPos, UnitApplyDamage and BuyItem, and the champion set is the set
   of champions of the CreateHero events. *)
C30_ScanAgreesWithParse ==
    (call.op = "paths" /\ call.scanned /\ call.parsed) =>
        /\ call.fast.deaths = call.meta.total_deaths
        /\ call.fast.spells = call.meta.total_spells_cast
        /\ call.fast.attacks = call.meta.total_basic_attacks
        /\ call.fast.damage = call.meta.total_damage_events
        /\ call.fast.items = call.meta.total_items_bought
        /\ call.fast.champs = call.meta.champions

====
